---------------------------- MODULE Spec2Model ----------------------------
(***************************************************************************)
(* Model of the download job manager of ComfyUI-Majoor-ProjectSettings     *)
(* (server/model_downloader_routes.py).                                    *)
(*                                                                         *)
(* Strings are TLA+ strings; a character is a string of length 1.  Sizes   *)
(* are counted in chunks of CHUNK_SIZE bytes: one character of a response  *)
(* body stands for one chunk, so a file's content is the string of the     *)
(* chunks written to it.  Python's None is written "" wherever the code    *)
(* only tests the value's truthiness.                                      *)
(***************************************************************************)
EXTENDS Integers, Sequences, FiniteSets, TLC

VARIABLES
    _jobs,      \* the in-memory job registry: job_id -> record
    files,      \* the file system: path -> content of the file at that path
    dirs,       \* the directories that exist
    worker,     \* job_id -> the locals of the job's running worker thread
    issued,     \* number of job ids drawn so far (uuid4 never repeats)
    now,        \* the wall clock, in hours
    response,   \* the last response of the HTTP front end
    crashed,    \* whether the server process has been killed and restarted
    call,       \* a call of a pure function of the program: name and arguments
    result,     \* what the call returned, once it has
    json_files, \* the JSON files under PROJECTS/_INDEX: name -> stored text
    library,    \* the model files folder_paths lists: <<kind, relpath>> -> file
    _fingerprint_cache_lock,    \* the thread holding the build lock, "" if free
    builder     \* thread -> the locals of a running _build_fingerprint_cache

\* the state of the model fixer and of the recipe store
fixer == <<json_files, library, _fingerprint_cache_lock, builder>>

vars == <<_jobs, files, dirs, worker, issued, now, response, crashed, call, result, fixer>>

---------------------------------------------------------------------------
(* Bounds of the model.                                                    *)

MaxJobs == 2        \* download submissions accepted in one run
MaxClock == 2       \* hours the clock advances

---------------------------------------------------------------------------
(* Python string primitives.                                               *)

Char(s, i) == SubSeq(s, i, i)

Contains(s, sub) ==
    \E i \in 1..(Len(s) - Len(sub) + 1) : SubSeq(s, i, i + Len(sub) - 1) = sub

EndsWith(s, suf) ==
    Len(suf) <= Len(s) /\ SubSeq(s, Len(s) - Len(suf) + 1, Len(s)) = suf

StartsWith(s, pre) ==
    Len(pre) <= Len(s) /\ SubSeq(s, 1, Len(pre)) = pre

UpperLetters == "ABCDEFGHIJKLMNOPQRSTUVWXYZ"
LowerLetters == "abcdefghijklmnopqrstuvwxyz"
Digits == "0123456789"

\* the characters of s, as a set
CharSet(s) == {Char(s, i) : i \in 1..Len(s)}

LowerMap ==
    [c \in CharSet(UpperLetters) |->
        Char(LowerLetters, CHOOSE i \in 1..Len(UpperLetters) : Char(UpperLetters, i) = c)]

LowerChar(c) == IF c \in DOMAIN LowerMap THEN LowerMap[c] ELSE c

RECURSIVE Lower(_)
Lower(s) == IF s = "" THEN "" ELSE LowerChar(Head(s)) \o Lower(Tail(s))

RECURSIVE LStrip(_)
LStrip(s) == IF s # "" /\ Head(s) = " " THEN LStrip(Tail(s)) ELSE s

RECURSIVE RStrip(_)
RStrip(s) ==
    IF s # "" /\ Char(s, Len(s)) = " " THEN RStrip(SubSeq(s, 1, Len(s) - 1)) ELSE s

Strip(s) == RStrip(LStrip(s))

RECURSIVE Replace(_, _, _)
Replace(s, c, d) ==
    IF s = "" THEN ""
    ELSE (IF Head(s) = c THEN d ELSE Head(s)) \o Replace(Tail(s), c, d)

\* index of the first / last occurrence of character c in s, 0 when absent
Find(s, c) ==
    IF \E i \in 1..Len(s) : Char(s, i) = c
    THEN CHOOSE i \in 1..Len(s) :
            Char(s, i) = c /\ \A k \in 1..(i - 1) : Char(s, k) # c
    ELSE 0

RFind(s, c) ==
    IF \E i \in 1..Len(s) : Char(s, i) = c
    THEN CHOOSE i \in 1..Len(s) :
            Char(s, i) = c /\ \A k \in (i + 1)..Len(s) : Char(s, k) # c
    ELSE 0

AllIn(s, alphabet) == \A i \in 1..Len(s) : Char(s, i) \in alphabet

Letters == CharSet(LowerLetters \o UpperLetters)
SchemeChars == CharSet(LowerLetters \o UpperLetters \o Digits \o "+-.")
HexDigits == CharSet("0123456789abcdef")
DecDigits == CharSet(Digits)

\* os.path.basename: what follows the last "/"
OsBasename(p) == SubSeq(p, RFind(p, "/") + 1, Len(p))

\* os.path.splitext(p)[1]: from the last "." of the basename, unless only
\* dots precede it
SplitExt(p) ==
    LET b == OsBasename(p)
        d == RFind(b, ".")
    IN IF d > 0 /\ \E k \in 1..(d - 1) : Char(b, k) # "."
       THEN SubSeq(b, d, Len(b))
       ELSE ""

\* urllib.parse.urlparse: the scheme (lower-cased), the netloc and the path
UrlSchemeEnd(url) ==
    LET c == Find(url, ":")
    IN IF c > 1 /\ Char(url, 1) \in Letters /\ AllIn(SubSeq(url, 1, c - 1), SchemeChars)
       THEN c ELSE 0

UrlScheme(url) == Lower(SubSeq(url, 1, UrlSchemeEnd(url) - 1))

UrlRest(url) == SubSeq(url, UrlSchemeEnd(url) + 1, Len(url))

\* first index in s at or after position from of a character of stops,
\* Len(s) + 1 when there is none
FirstOf(s, from, stops) ==
    IF \E i \in from..Len(s) : Char(s, i) \in stops
    THEN CHOOSE i \in from..Len(s) :
            Char(s, i) \in stops /\ \A k \in from..(i - 1) : Char(s, k) \notin stops
    ELSE Len(s) + 1

UrlNetloc(url) ==
    LET r == UrlRest(url)
    IN IF StartsWith(r, "//") THEN SubSeq(r, 3, FirstOf(r, 3, {"/", "?", "#"}) - 1) ELSE ""

UrlPath(url) ==
    LET r == UrlRest(url)
        p == IF StartsWith(r, "//") THEN FirstOf(r, 3, {"/", "?", "#"}) ELSE 1
    IN SubSeq(r, p, FirstOf(r, p, {"?", "#"}) - 1)


---------------------------------------------------------------------------
(* Constants of model_downloader_routes.py.                                *)

ALLOWED_EXTENSIONS == {".safetensors", ".ckpt", ".pt", ".pth", ".bin"}

MAX_ITEMS == 50

CHUNK_SIZE == 1             \* the unit in which sizes are counted

JOB_CLEANUP_HOURS == 1

VALID_KINDS ==
    {"checkpoints", "diffusion_models", "loras", "vae", "controlnet",
     "text_encoders", "clip", "clip_vision", "unet", "upscale_models",
     "embeddings"}

KIND_ALIASES ==
    [k \in {"checkpoint", "ckpt", "lora", "text_encoder", "text_encoders", "diffusion"} |->
        CASE k = "checkpoint" -> "checkpoints"
          [] k = "ckpt" -> "checkpoints"
          [] k = "lora" -> "loras"
          [] k = "text_encoder" -> "text_encoders"
          [] k = "text_encoders" -> "text_encoders"
          [] k = "diffusion" -> "diffusion_models"]

\* the configured ceiling of one download, in chunks (always positive)
_get_max_download_bytes == 1

---------------------------------------------------------------------------
(* Validation of a submitted item.                                         *)

\* route_utils.basename
basename(value) == OsBasename(Replace(value, "\\", "/"))

_normalize_kind(kind) ==
    LET k == Lower(Strip(kind))
        a == IF k \in DOMAIN KIND_ALIASES THEN KIND_ALIASES[k] ELSE k
    IN IF a \in VALID_KINDS THEN a ELSE ""

_is_valid_sha256(value) ==
    /\ value # ""
    /\ LET v == Lower(Strip(value))
       IN Len(v) = 64 /\ AllIn(v, HexDigits)

\* <<ok, reason>>
_validate_url(url) ==
    IF url = "" THEN <<FALSE, "url is required">>
    ELSE IF UrlScheme(url) \notin {"http", "https"}
    THEN <<FALSE, "url must start with http or https">>
    ELSE IF UrlNetloc(url) = "" THEN <<FALSE, "url must include a host">>
    ELSE <<TRUE, "">>

_extract_filename(url, filename) ==
    IF filename # "" THEN Strip(filename) ELSE basename(UrlPath(url))

_validate_filename(filename) ==
    IF filename = "" THEN <<FALSE, "filename is required">>
    ELSE IF Contains(filename, "/") \/ Contains(filename, "\\") \/ Contains(filename, ":")
    THEN <<FALSE, "filename must be a basename">>
    ELSE IF Contains(filename, "..") THEN <<FALSE, "filename contains invalid path">>
    ELSE IF Lower(SplitExt(filename)) \notin ALLOWED_EXTENSIONS
    THEN <<FALSE, "unsupported extension '" \o SplitExt(filename) \o "'">>
    ELSE <<TRUE, "">>

NoItem == [key |-> "", kind |-> "", url |-> "", filename |-> "", sha256 |-> "", token |-> ""]

\* [item, err]: the normalized item and "", or NoItem and the reason
_validate_item(raw) ==
    LET key == basename(raw.key)
        url == Strip(raw.url)
        kind == _normalize_kind(raw.kind)
        filename == _extract_filename(url, Strip(raw.filename))
        sha256 == Lower(Strip(raw.sha256))
        token == Strip(raw.token)
    IN IF key = "" THEN [item |-> NoItem, err |-> "key is required"]
       ELSE IF ~_validate_url(url)[1] THEN [item |-> NoItem, err |-> _validate_url(url)[2]]
       ELSE IF kind = "" THEN [item |-> NoItem, err |-> "invalid kind"]
       ELSE IF ~_validate_filename(filename)[1]
       THEN [item |-> NoItem, err |-> _validate_filename(filename)[2]]
       ELSE IF sha256 # "" /\ ~_is_valid_sha256(sha256)
       THEN [item |-> NoItem, err |-> "sha256 must be 64 hex characters"]
       ELSE [item |-> [key |-> key, kind |-> kind, url |-> url, filename |-> filename,
                       sha256 |-> sha256, token |-> token],
             err |-> ""]

\* a loop that lets every valid item through, whatever its key
RECURSIVE ValidateItems_all(_, _, _)
ValidateItems_all(raw_items, items, seen) ==
    IF raw_items = <<>> THEN [items |-> items, err |-> ""]
    ELSE LET v == _validate_item(Head(raw_items))
         IN IF v.err # "" THEN [items |-> <<>>, err |-> v.err]
            ELSE ValidateItems_all(Tail(raw_items), Append(items, v.item), seen)

\* the loop of mjr_models_download over raw_items: the first reason met, or
\* the valid items with later duplicates of a key dropped
RECURSIVE ValidateItems(_, _, _)
ValidateItems(raw_items, items, seen) ==
    IF raw_items = <<>> THEN [items |-> items, err |-> ""]
    ELSE LET v == _validate_item(Head(raw_items))
         IN IF v.err # "" THEN [items |-> <<>>, err |-> v.err]
            ELSE IF v.item.key \in seen THEN ValidateItems(Tail(raw_items), items, seen)
            ELSE ValidateItems(Tail(raw_items), Append(items, v.item),
                               seen \cup {v.item.key})


---------------------------------------------------------------------------
(* The outside world: remote servers, SHA-256, the environment.            *)

\* What the server behind a url answers: its Content-Length header ("" when
\* it sends none) and its body, one character per chunk.
Server(url) ==
    CASE url = "https://h.io/a.pt" -> [length |-> "1", body |-> "a"]
      [] url = "https://g.io/b.pt" -> [length |-> "", body |-> "b"]
      [] url = "https://h.io/big.pt" -> [length |-> "2", body |-> "cc"]
      [] url = "https://h.io/d.pt" -> [length |-> "", body |-> "dd"]
      [] OTHER -> [length |-> "0", body |-> ""]

\* hashlib.sha256(bytes).hexdigest() of the contents the servers can send
Sha256(bytes) ==
    CASE
         bytes = "" -> "e3b0c44298fc1c149afbf4c8996fb92427ae41e4649b934ca495991b7852b855"
      [] bytes = "a" -> "ca978112ca1bbdcafac231b39a23dc4da786eff8147c4e72b9807785afee48bb"
      [] bytes = "aa" -> "961b6dd3ede3cb8ecbaacbd68de040cd78eb2ed5889130cceb4c49268ea4d506"
      [] bytes = "b" -> "3e23e8160039594a33894f6564e1b1348bbd7a0088d42c4acb73eeaed59c009d"
      [] bytes = "c" -> "2e7d2c03a9507ae265ecf5b5356885a53393a2029d241394997265a1a25aefc6"
      [] bytes = "cc" -> "355b1bbfc96725cdce8f4a2708fda310a80e6d13315aec4e5eed2a75fe8032ce"
      [] bytes = "ccc" -> "64daa44ad493ff28a96effab6e77f1732a3d97d83241581b37dbd70a7a4900fe"
      [] bytes = "d" -> "18ac3e7343f016890c510e93f935261169d9e3f565436429830faf0934f4f8e4"
      [] bytes = "dd" -> "9b7ecc6eeb83abf9ade10fe38865df4499be3568dcc507ae2ec3b44989cb0093"
      [] bytes = "ddd" -> "730f75dafd73e047b86acb2dbd74e75dcb93272fa084a9082848f2341aa1abb6"

\* int(s) of a decimal string; -1 stands for ValueError
RECURSIVE ParseInt(_, _)
ParseInt(s, acc) ==
    IF s = "" THEN acc
    ELSE IF Head(s) \notin DecDigits THEN -1
    ELSE ParseInt(Tail(s), 10 * acc + (Find(Digits, Head(s)) - 1))

---------------------------------------------------------------------------
(* File system.                                                            *)

Restrict(f, S) == [k \in S |-> f[k]]

Unlink(fs, path) == Restrict(fs, DOMAIN fs \ {path})

WriteFile(fs, path, content) == (path :> content) @@ fs

\* os.replace(src, dst), src existing
OsReplace(fs, src, dst) == (dst :> fs[src]) @@ Restrict(fs, DOMAIN fs \ {src})

\* shutil.rmtree(dir, ignore_errors=True): the files left
Rmtree(fs, dir) == Restrict(fs, {q \in DOMAIN fs : ~StartsWith(q, dir \o "/")})

_models_root == "models"

\* one temp directory for all jobs
_temp_dir_shared(job_id) == _models_root \o "/.mjr_tmp"

_temp_dir(job_id) == _models_root \o "/.mjr_tmp/" \o job_id

\* folder_paths knows no other directory: the fallback root / kind
_resolve_target_dir(kind) == _models_root \o "/" \o kind

target_path(item) == _resolve_target_dir(item.kind) \o "/" \o item.filename

\* a download streamed straight into its final place
tmp_path_in_place(job_id, item) == target_path(item)

tmp_path(job_id, item) == _temp_dir(job_id) \o "/" \o item.filename \o ".part"

final_tmp(job_id, item) == _temp_dir(job_id) \o "/" \o item.filename

\* a file the user put into the library before the server started
UserFile == "models/loras/g.pt"

---------------------------------------------------------------------------
(* The job registry.                                                       *)

\* a generator of ids that hands out the same id again
uuid4_reused(n) == "j1"

uuid4(n) == "j" \o ToString(n)

_init_job(jobs, job_id, t) ==
    (job_id :> [state |-> "queued",
                progress |-> [current |-> 0, total |-> 0, pct |-> 0],
                message |-> "",
                created_at |-> t,
                summary |-> [downloaded |-> 0, errors |-> 0]])
    @@ jobs

\* an update that creates the record it does not find
_update_job_upsert(jobs, job_id, kwargs) ==
    IF job_id \notin DOMAIN jobs THEN (job_id :> kwargs) @@ jobs
    ELSE [jobs EXCEPT ![job_id] = kwargs @@ @]

\* kwargs is a record of the fields to set
_update_job(jobs, job_id, kwargs) ==
    IF job_id \notin DOMAIN jobs THEN jobs
    ELSE [jobs EXCEPT ![job_id] = kwargs @@ @]

\* a purge that also takes the jobs whose age is exactly the window
_cleanup_old_jobs_inclusive(jobs, t) ==
    Restrict(jobs, {j \in DOMAIN jobs : ~(jobs[j].created_at <= t - JOB_CLEANUP_HOURS)})

\* a purge that marks the expired jobs instead of removing them
_cleanup_old_jobs_marking(jobs, t) ==
    [j \in DOMAIN jobs |->
        IF jobs[j].created_at < t - JOB_CLEANUP_HOURS
        THEN [jobs[j] EXCEPT !.state = "expired"]
        ELSE jobs[j]]

_cleanup_old_jobs(jobs, t) ==
    Restrict(jobs, {j \in DOMAIN jobs : ~(jobs[j].created_at < t - JOB_CLEANUP_HOURS)})

\* the token of the environment (HUGGINGFACE_HUB_TOKEN, HF_TOKEN, ...)
EnvToken == ""

TrustedHost(host) ==
    \/ Contains(host, "huggingface.co")
    \/ Contains(host, "huggingfaceusercontent.com")
    \/ EndsWith(host, "hf.co")

UserAgent == [name |-> "User-Agent", value |-> "ComfyUI-Majoor-Downloader"]

\* the set of header lines of the request
_prepare_headers(url, token, env_token) ==
    LET t == IF token # "" THEN token ELSE env_token
    IN IF t = "" THEN {UserAgent}
       ELSE IF TrustedHost(Lower(UrlNetloc(url)))
       THEN {UserAgent, [name |-> "Authorization", value |-> "Bearer " \o t]}
       ELSE {UserAgent}

RECURSIVE ReplaceAll(_, _, _)
ReplaceAll(s, sub, rep) ==
    IF Len(s) < Len(sub) THEN s
    ELSE IF StartsWith(s, sub)
    THEN rep \o ReplaceAll(SubSeq(s, Len(sub) + 1, Len(s)), sub, rep)
    ELSE Head(s) \o ReplaceAll(Tail(s), sub, rep)

_sanitize_error_message(message, item) ==
    IF item.token # "" /\ Contains(message, item.token)
    THEN ReplaceAll(message, item.token, "[REDACTED]")
    ELSE message


---------------------------------------------------------------------------
(* The requests sent to the route.                                         *)

Raw(key, url, kind, filename, sha256) ==
    [key |-> key, url |-> url, kind |-> kind, filename |-> filename,
     sha256 |-> sha256, token |-> ""]

\* downloads a.pt into checkpoints; the filename comes from the url
ItemA == Raw("a.pt", "https://h.io/a.pt", "checkpoint", "", "")
\* another url for the same final name, with the right checksum in upper case
ItemB == Raw("b", "https://g.io/b.pt", " Checkpoints", "a.pt",
             "3E23E8160039594A33894F6564E1B1348BBD7A0088D42C4ACB73EEAED59C009D")
\* advertises more than the ceiling
ItemC == Raw("c", "https://h.io/big.pt", "lora", "c.pt", "")
\* sends more than the ceiling without advertising it
ItemD == Raw("d", "https://h.io/d.pt", "vae", "d.pt", "")
\* carries the checksum of other content
ItemE == Raw("e", "https://g.io/b.pt", "vae", "e.pt",
             "ca978112ca1bbdcafac231b39a23dc4da786eff8147c4e72b9807785afee48bb")
\* its key has the basename of ItemA's
ItemF == Raw("dir\\a.pt", "https://g.io/b.pt", "vae", "f.pt", "")
\* targets the file the user already has
ItemG == Raw("g", "https://h.io/a.pt", "loras", "g.pt", "")
\* invalid: extension, scheme
ItemX == Raw("x", "https://h.io/x.exe", "vae", "", "")
ItemY == Raw("y", "ftp://h.io/a.pt", "vae", "a.pt", "")

\* the bodies submitted: accepted ones, and ones with an invalid item
Batches == { <<ItemA, ItemF>>, <<ItemB>>, <<ItemE, ItemG>>, <<ItemC, ItemD>> }

FrontBatches == { <<ItemB>>, <<ItemA, ItemX>>, <<ItemY>> }

CrashBatches == { <<ItemB>>, <<ItemE, ItemG>>, <<ItemC, ItemD>> }

StatusBatches == { <<ItemB>> }

\* a download that succeeds or times out, and two that fail for their size
LiveBatches == { <<ItemB>>, <<ItemC, ItemD>> }

\* two items of one job that both stream, the first with no advertised
\* length, and a job whose only item advertises its length
StreamBatches == { <<ItemB, ItemD>>, <<ItemG, ItemA>> }

\* the validation loop's outcome for each batch
Validated ==
    [raw_items \in Batches \cup FrontBatches \cup StatusBatches \cup StreamBatches |-> ValidateItems(raw_items, <<>>, {})]

---------------------------------------------------------------------------
(* The download route.                                                     *)

json_error(message) == [ok |-> FALSE, error |-> message, status |-> 400]

NoFrame == [total |-> 0, downloaded |-> 0, hashed |-> ""]

\* the locals of _run_download_job as its thread starts; started (the
\* indexes of the items begun, in order) and requests (the network requests
\* sent) record what the thread has done
NewWorker(items) ==
    [pc |-> "loop", items |-> items, index |-> 1,
     downloaded |-> 0, errors |-> 0, skipped |-> 0,
     results |-> <<>>, started |-> <<>>, requests |-> {}, f |-> NoFrame]

\* a route that purges the expired jobs before it validates the items
mjr_models_download_purge_first(raw_items, jobs, t, job_id) ==
    LET purged == _cleanup_old_jobs(jobs, t)
    IN IF raw_items = <<>>
       THEN [response |-> json_error("items must be a non-empty list"),
             jobs |-> purged, items |-> <<>>]
       ELSE IF Len(raw_items) > MAX_ITEMS
       THEN [response |-> json_error("too many items"), jobs |-> purged, items |-> <<>>]
       ELSE LET v == Validated[raw_items]
            IN IF v.err # ""
               THEN [response |-> json_error(v.err), jobs |-> purged, items |-> <<>>]
               ELSE [response |-> [ok |-> TRUE, job_id |-> job_id],
                     jobs |-> _init_job(purged, job_id, t),
                     items |-> v.items]

\* mjr_models_download on a parsed body: the response, the registry it
\* leaves and the items handed to a new worker (<< >>: no worker started)
mjr_models_download(raw_items, jobs, t, job_id) ==
    IF raw_items = <<>>
    THEN [response |-> json_error("items must be a non-empty list"),
          jobs |-> jobs, items |-> <<>>]
    ELSE IF Len(raw_items) > MAX_ITEMS
    THEN [response |-> json_error("too many items"), jobs |-> jobs, items |-> <<>>]
    ELSE LET v == Validated[raw_items]
         IN IF v.err # ""
            THEN [response |-> json_error(v.err), jobs |-> jobs, items |-> <<>>]
            ELSE [response |-> [ok |-> TRUE, job_id |-> job_id],
                  jobs |-> _init_job(_cleanup_old_jobs(jobs, t), job_id, t),
                  items |-> v.items]

---------------------------------------------------------------------------
(* Initial state and the front end's actions.                              *)

\* the model files on disk as the server starts
ModelLibrary ==
    (<<"loras", "x.safetensors">> :> [size |-> 1, mtime |-> 10, data |-> "x", readable |-> TRUE])
    @@ (<<"loras", "sub/y.pt">> :> [size |-> 2, mtime |-> 10, data |-> "yy", readable |-> TRUE])
    @@ (<<"vae", "v.pt">> :> [size |-> 1, mtime |-> 11, data |-> "v", readable |-> TRUE])

\* no JSON file written yet, no build running
FixerIdle ==
    /\ json_files = [f \in {} |-> 0]
    /\ library = ModelLibrary
    /\ _fingerprint_cache_lock = ""
    /\ builder = [b \in {} |-> 0]

Init ==
    /\ FixerIdle
    /\ _jobs = [j \in {} |-> 0]
    /\ files = (UserFile :> "user")
    /\ dirs = {_resolve_target_dir("loras")}
    /\ worker = [j \in {} |-> 0]
    /\ issued = 0
    /\ now = 0
    /\ response = [ok |-> TRUE]
    /\ crashed = FALSE
    /\ call = [fn |-> "none"]
    /\ result = [returned |-> FALSE]

\* POST /mjr_models/download
Download(raw_items) ==
    LET job_id == uuid4(issued + 1)
        r == mjr_models_download(raw_items, _jobs, now, job_id)
    IN /\ r.items # <<>> => issued < MaxJobs
       /\ response' = r.response
       /\ _jobs' = r.jobs
       /\ IF r.items # <<>>
          THEN /\ worker' = (job_id :> NewWorker(r.items)) @@ worker
               /\ issued' = issued + 1
          ELSE UNCHANGED <<worker, issued>>
       /\ UNCHANGED <<files, dirs, now, crashed, call, result, fixer>>

\* an hour passes
Tick ==
    /\ now < MaxClock
    /\ now' = now + 1
    /\ UNCHANGED <<_jobs, files, dirs, worker, issued, response, crashed, call, result, fixer>>

\* the server process is killed and started again: the registry and the
\* worker threads are gone, the disk is as it was
Crash ==
    /\ ~crashed
    /\ crashed' = TRUE
    /\ _jobs' = [j \in {} |-> 0]
    /\ worker' = [j \in {} |-> 0]
    /\ UNCHANGED <<files, dirs, issued, now, response, call, result, fixer>>


---------------------------------------------------------------------------
(* The worker of a job: _run_download_job and, per item, _download_single. *)

\* a ceiling that is never enforced
SizeExceeded_never(n, max_bytes) == FALSE

SizeExceeded(n, max_bytes) == n # 0 /\ max_bytes # 0 /\ n > max_bytes

Sha256Mismatch(sha256_expected, hashed) ==
    sha256_expected # "" /\ Lower(Sha256(hashed)) # Lower(sha256_expected)

\* int((downloaded / total) * 100): the quotient is a float; on the lengths
\* the servers here send the result is the integer quotient below
Pct(downloaded, total) == IF total # 0 THEN (downloaded * 100) \div total ELSE 0

\* a job that reports success whatever its items did
JobFinalState_always_done(errors) == "done"

JobFinalState(errors) == IF errors = 0 THEN "done" ELSE "error"

\* the except clause around the streaming: the partial file is removed
StreamCleanup(fs, path) == IF path \in DOMAIN fs THEN Unlink(fs, path) ELSE fs

\* a failure that ends the loop instead of going on to the next item
ItemFailed_abort(w, item, message) ==
    [w EXCEPT !.results = Append(@, [key |-> item.key, filename |-> item.filename,
                                     status |-> "error",
                                     error |-> _sanitize_error_message(message, item)]),
              !.errors = @ + 1,
              !.index = Len(w.items) + 1,
              !.pc = "loop",
              !.f = NoFrame]

\* a failure after which the worker tries the same item again
ItemFailed_retry(w, item, message) == [w EXCEPT !.pc = "tmp", !.f = NoFrame]

\* the except clause of _run_download_job: the item is counted as an error
ItemFailed(w, item, message) ==
    [w EXCEPT !.results = Append(@, [key |-> item.key, filename |-> item.filename,
                                     status |-> "error",
                                     error |-> _sanitize_error_message(message, item)]),
              !.errors = @ + 1,
              !.index = @ + 1,
              !.pc = "loop",
              !.f = NoFrame]

\* an existing target that does not end the item: it is downloaded again
ItemSkipped_goes_on(w, item) == [w EXCEPT !.pc = "tmp"]

ItemSkipped(w, item) ==
    [w EXCEPT !.results = Append(@, [key |-> item.key, filename |-> item.filename,
                                     status |-> "skipped", reason |-> "exists",
                                     path |-> target_path(item)]),
              !.skipped = @ + 1,
              !.index = @ + 1,
              !.pc = "loop",
              !.f = NoFrame]

ItemOk(w, item) ==
    [w EXCEPT !.results = Append(@, [key |-> item.key, filename |-> item.filename,
                                     status |-> "ok", path |-> target_path(item)]),
              !.downloaded = @ + 1,
              !.index = @ + 1,
              !.pc = "loop",
              !.f = NoFrame]

Running(j, pc) == j \in DOMAIN worker /\ worker[j].pc = pc

\* the next item of the loop enters _download_single: the target directory
\* is made and an existing target ends the item as skipped
DownloadSingleCheck(j) ==
    /\ Running(j, "loop")
    /\ worker[j].index <= Len(worker[j].items)
    /\ LET w == [worker[j] EXCEPT !.started = Append(@, worker[j].index)]
           item == w.items[w.index]
       IN /\ dirs' = dirs \cup {_resolve_target_dir(item.kind)}
          /\ worker' = [worker EXCEPT ![j] =
                          IF target_path(item) \in DOMAIN files
                          THEN ItemSkipped(w, item)
                          ELSE [w EXCEPT !.pc = "tmp"]]
    /\ UNCHANGED <<_jobs, files, issued, now, response, crashed, call, result, fixer>>

\* the temp directory is made, a stale partial file removed, and the job
\* shown as downloading
DownloadSinglePrepare(j) ==
    /\ Running(j, "tmp")
    /\ LET w == worker[j]
           item == w.items[w.index]
           message == ToString(w.index) \o "/" \o ToString(Len(w.items))
                      \o " downloading " \o item.filename
       IN /\ dirs' = dirs \cup {_temp_dir(j)}
          /\ files' = StreamCleanup(files, tmp_path(j, item))
          /\ _jobs' = _update_job(_jobs, j, [state |-> "downloading", message |-> message])
          /\ worker' = [worker EXCEPT ![j] = [w EXCEPT !.pc = "open", !.f = NoFrame]]
    /\ UNCHANGED <<issued, now, response, crashed, call, result, fixer>>

\* urlopen: the request goes out; it fails, or the response headers arrive,
\* the advertised length is checked and the partial file is created
DownloadSingleOpen(j) ==
    /\ Running(j, "open")
    /\ LET item == worker[j].items[worker[j].index]
           length == Server(item.url).length
           total == IF length # "" /\ ParseInt(length, 0) >= 0
                    THEN ParseInt(length, 0) * CHUNK_SIZE ELSE 0
           w == [worker[j] EXCEPT !.requests = @ \cup
                    {[index |-> worker[j].index, url |-> item.url,
                      headers |-> _prepare_headers(item.url, item.token, EnvToken)]}]
       IN /\ \E answered \in BOOLEAN :
               IF ~answered
               THEN /\ files' = StreamCleanup(files, tmp_path(j, item))
                    /\ worker' = [worker EXCEPT ![j] =
                                    ItemFailed(w, item, "timed out")]
               ELSE IF SizeExceeded(total, _get_max_download_bytes)
               THEN /\ files' = StreamCleanup(files, tmp_path(j, item))
                    /\ worker' = [worker EXCEPT ![j] =
                                    ItemFailed(w, item, "download exceeds size limit")]
               ELSE IF _temp_dir(j) \notin dirs
               THEN /\ files' = StreamCleanup(files, tmp_path(j, item))
                    /\ worker' = [worker EXCEPT ![j] =
                                    ItemFailed(w, item, "No such file or directory")]
               ELSE /\ files' = WriteFile(files, tmp_path(j, item), "")
                    /\ worker' = [worker EXCEPT ![j] =
                                    [w EXCEPT !.pc = "read", !.f.total = total]]
    /\ UNCHANGED <<_jobs, dirs, issued, now, response, crashed, call, result, fixer>>

\* one turn of the streaming loop: resp.read fails, or returns the next
\* chunk, which is written, hashed, counted and checked against the
\* ceiling before the progress is published, or returns nothing (the end)
DownloadSingleRead(j) ==
    /\ Running(j, "read")
    /\ LET w == worker[j]
           item == w.items[w.index]
           body == Server(item.url).body
           pos == w.f.downloaded \div CHUNK_SIZE
           part == tmp_path(j, item)
       IN \E arrived \in BOOLEAN :
            IF ~arrived
            THEN /\ files' = StreamCleanup(files, part)
                 /\ worker' = [worker EXCEPT ![j] = ItemFailed(w, item, "timed out")]
                 /\ UNCHANGED _jobs
            ELSE IF pos >= Len(body)
            THEN /\ worker' = [worker EXCEPT ![j] = [w EXCEPT !.pc = "verify"]]
                 /\ UNCHANGED <<_jobs, files>>
            ELSE LET chunk == Char(body, pos + 1)
                     written == IF part \in DOMAIN files
                                THEN WriteFile(files, part, files[part] \o chunk)
                                ELSE files
                     downloaded == w.f.downloaded + Len(chunk) * CHUNK_SIZE
                 IN IF SizeExceeded(downloaded, _get_max_download_bytes)
                    THEN /\ files' = StreamCleanup(written, part)
                         /\ worker' = [worker EXCEPT ![j] =
                                         ItemFailed(w, item, "download exceeds size limit")]
                         /\ UNCHANGED _jobs
                    ELSE /\ files' = written
                         /\ worker' = [worker EXCEPT ![j] =
                                [w EXCEPT !.f.downloaded = downloaded,
                                          !.f.hashed = IF item.sha256 # ""
                                                       THEN @ \o chunk ELSE @]]
                         /\ _jobs' = _update_job(_jobs, j,
                                [progress |-> [current |-> downloaded,
                                               total |-> w.f.total,
                                               pct |-> Pct(downloaded, w.f.total)]])
    /\ UNCHANGED <<dirs, issued, now, response, crashed, call, result, fixer>>

\* the checksum is compared; a verified download gets its final name
\* inside the temp directory
DownloadSingleVerify(j) ==
    /\ Running(j, "verify")
    /\ LET w == worker[j]
           item == w.items[w.index]
       IN IF Sha256Mismatch(item.sha256, w.f.hashed)
          THEN /\ worker' = [worker EXCEPT ![j] = ItemFailed(w, item, "sha256 mismatch")]
               /\ UNCHANGED files
          ELSE IF tmp_path(j, item) \notin DOMAIN files
          THEN /\ worker' = [worker EXCEPT ![j] =
                               ItemFailed(w, item, "No such file or directory")]
               /\ UNCHANGED files
          ELSE /\ files' = OsReplace(files, tmp_path(j, item), final_tmp(j, item))
               /\ worker' = [worker EXCEPT ![j] = [w EXCEPT !.pc = "place"]]
    /\ UNCHANGED <<_jobs, dirs, issued, now, response, crashed, call, result, fixer>>

\* the file moves into the target directory and the item ends ok
DownloadSinglePlace(j) ==
    /\ Running(j, "place")
    /\ LET w == worker[j]
           item == w.items[w.index]
       IN IF final_tmp(j, item) \notin DOMAIN files
          THEN /\ worker' = [worker EXCEPT ![j] =
                               ItemFailed(w, item, "No such file or directory")]
               /\ UNCHANGED files
          ELSE /\ files' = OsReplace(files, final_tmp(j, item), target_path(item))
               /\ worker' = [worker EXCEPT ![j] = ItemOk(w, item)]
    /\ UNCHANGED <<_jobs, dirs, issued, now, response, crashed, call, result, fixer>>

\* after the loop the summary and the final state are published
RunDownloadJobFinish(j) ==
    /\ Running(j, "loop")
    /\ worker[j].index > Len(worker[j].items)
    /\ LET w == worker[j]
           summary == [downloaded |-> w.downloaded, errors |-> w.errors,
                       skipped |-> w.skipped]
           message == "Downloaded " \o ToString(w.downloaded) \o ", skipped "
                      \o ToString(w.skipped) \o ", errors " \o ToString(w.errors)
       IN /\ _jobs' = _update_job(_jobs, j, [state |-> JobFinalState(w.errors),
                                             message |-> message, summary |-> summary])
          /\ worker' = [worker EXCEPT ![j] = [w EXCEPT !.pc = "rmtree"]]
    /\ UNCHANGED <<files, dirs, issued, now, response, crashed, call, result, fixer>>

\* a worker that keeps the temp directory of a job that had errors
RunDownloadJobCleanup_unless_errors(j) ==
    /\ Running(j, "rmtree")
    /\ files' = IF worker[j].errors = 0 THEN Rmtree(files, _temp_dir(j)) ELSE files
    /\ dirs' = IF worker[j].errors = 0 THEN dirs \ {_temp_dir(j)} ELSE dirs
    /\ worker' = Restrict(worker, DOMAIN worker \ {j})
    /\ UNCHANGED <<_jobs, issued, now, response, crashed, call, result, fixer>>

\* the job's temp directory is removed and the thread ends
RunDownloadJobCleanup(j) ==
    /\ Running(j, "rmtree")
    /\ files' = Rmtree(files, _temp_dir(j))
    /\ dirs' = dirs \ {_temp_dir(j)}
    /\ worker' = Restrict(worker, DOMAIN worker \ {j})
    /\ UNCHANGED <<_jobs, issued, now, response, crashed, call, result, fixer>>

JobIds == {uuid4(n) : n \in 1..MaxJobs}

WorkerStep ==
    \/ \E j \in JobIds : DownloadSingleCheck(j)
    \/ \E j \in JobIds : DownloadSinglePrepare(j)
    \/ \E j \in JobIds : DownloadSingleOpen(j)
    \/ \E j \in JobIds : DownloadSingleRead(j)
    \/ \E j \in JobIds : DownloadSingleVerify(j)
    \/ \E j \in JobIds : DownloadSinglePlace(j)
    \/ \E j \in JobIds : RunDownloadJobFinish(j)
    \/ \E j \in JobIds : RunDownloadJobCleanup(j)

\* the steps of the worker thread of job j
RunDownloadJob(j) ==
    \/ DownloadSingleCheck(j)
    \/ DownloadSinglePrepare(j)
    \/ DownloadSingleOpen(j)
    \/ DownloadSingleRead(j)
    \/ DownloadSingleVerify(j)
    \/ DownloadSinglePlace(j)
    \/ RunDownloadJobFinish(j)
    \/ RunDownloadJobCleanup(j)

\* accepted submissions and their workers
Next ==
    \/ \E raw_items \in Batches : Download(raw_items)
    \/ WorkerStep

Spec == Init /\ [][Next]_vars

\* the same, with the server process killed at any moment
NextCrash ==
    \/ \E raw_items \in CrashBatches : Download(raw_items)
    \/ WorkerStep
    \/ Crash

SpecCrash == Init /\ [][NextCrash]_vars

\* submissions accepted and rejected while time passes
NextFront ==
    \/ \E raw_items \in FrontBatches : Download(raw_items)
    \/ Tick
    \/ WorkerStep

SpecFront == Init /\ [][NextFront]_vars

\* submissions while time passes; every worker thread that can take a step
\* is scheduled in the end, and every network call returns or fails
NextLive ==
    \/ \E raw_items \in LiveBatches : Download(raw_items)
    \/ Tick
    \/ WorkerStep

SpecLive ==
    /\ Init
    /\ [][NextLive]_vars
    /\ \A j \in JobIds : WF_vars(RunDownloadJob(j))

\* jobs whose items stream one after the other
NextStream ==
    \/ \E raw_items \in StreamBatches : Download(raw_items)
    \/ WorkerStep

SpecStream == Init /\ [][NextStream]_vars

---------------------------------------------------------------------------
(* _prepare_headers called on its own.                                     *)

\* hosts a url can name: the providers, their subdomains, and others
HeaderHosts ==
    {"huggingface.co", "cdn.huggingface.co", "HuggingFace.co", "hf.co", "x.hf.co",
     "huggingfaceusercontent.com", "cdn-lfs.huggingfaceusercontent.com",
     "h.io", "example.com", "huggingface.com", "huggingface.co.evil.io",
     "evilhf.co", "nothuggingface.co", "hf.co.uk"}

HeaderUrls == {"https://" \o host \o path : host \in HeaderHosts, path \in {"/a.pt", "/m/b.bin"}}

HeaderCalls ==
    [fn : {"_prepare_headers"}, url : HeaderUrls, token : {"", "tk"}, env_token : {"", "ev"}]

InitHeaders ==
    /\ FixerIdle
    /\ _jobs = [j \in {} |-> 0]
    /\ files = (UserFile :> "user")
    /\ dirs = {_resolve_target_dir("loras")}
    /\ worker = [j \in {} |-> 0]
    /\ issued = 0
    /\ now = 0
    /\ response = [ok |-> TRUE]
    /\ crashed = FALSE
    /\ call \in HeaderCalls
    /\ result = [returned |-> FALSE]

PrepareHeaders ==
    /\ call.fn = "_prepare_headers"
    /\ ~result.returned
    /\ result' = [returned |-> TRUE,
                  headers |-> _prepare_headers(call.url, call.token, call.env_token)]
    /\ UNCHANGED <<_jobs, files, dirs, worker, issued, now, response, crashed, call, fixer>>

NextHeaders == PrepareHeaders

SpecHeaders == InitHeaders /\ [][NextHeaders]_vars

---------------------------------------------------------------------------
(* Calls of single functions: the rest of the state stays as it starts.    *)

DownloaderIdle ==
    /\ _jobs = [j \in {} |-> 0]
    /\ files = (UserFile :> "user")
    /\ dirs = {_resolve_target_dir("loras")}
    /\ worker = [j \in {} |-> 0]
    /\ issued = 0
    /\ now = 0
    /\ response = [ok |-> TRUE]
    /\ crashed = FALSE

DownloaderUnchanged ==
    UNCHANGED <<_jobs, files, dirs, worker, issued, now, response, crashed>>

---------------------------------------------------------------------------
(* GET /mjr_models/download_status, running beside the worker threads.     *)

\* A dict object handed to the handler: dict(job) is a new object holding
\* the values the record had when it was made (live = FALSE); the registry's
\* own object would show whatever the record holds when it is read.
_get_job_live(jobs, job_id) ==
    IF job_id \notin DOMAIN jobs THEN [found |-> FALSE]
    ELSE [found |-> TRUE, live |-> TRUE, id |-> job_id, fields |-> jobs[job_id]]

_get_job(jobs, job_id) ==
    IF job_id \notin DOMAIN jobs THEN [found |-> FALSE]
    ELSE [found |-> TRUE, live |-> FALSE, id |-> job_id, fields |-> jobs[job_id]]

\* job.get(key, default) at the moment the handler evaluates it
DictGet(job, key, default) ==
    IF job.live
    THEN IF job.id \in DOMAIN _jobs THEN _jobs[job.id][key] ELSE default
    ELSE job.fields[key]

\* the entries of the response, in the order the handler evaluates them
StatusKeys == <<"state", "progress", "message", "summary">>

StatusIdle == call.fn = "none" \/ result.returned

\* the handler calls _get_job; at is the record at that instant
StatusGet(job_id) ==
    /\ StatusIdle
    /\ LET job == _get_job(_jobs, job_id)
       IN IF ~job.found
          THEN /\ call' = [fn |-> "mjr_models_download_status", job_id |-> job_id]
               /\ result' = [returned |-> TRUE,
                             view |-> [ok |-> FALSE, error |-> "job not found",
                                       status |-> 404]]
          ELSE /\ call' = [fn |-> "mjr_models_download_status", job_id |-> job_id,
                           job |-> job, at |-> _jobs[job_id]]
               /\ result' = [returned |-> FALSE, view |-> [ok |-> TRUE]]
    /\ DownloaderUnchanged
    /\ UNCHANGED fixer

\* the handler evaluates the next entry of the response it builds
StatusRead ==
    /\ call.fn = "mjr_models_download_status"
    /\ ~result.returned
    /\ LET view == result.view
           key == StatusKeys[Cardinality(DOMAIN view)]
           default == CASE key = "state" -> "queued"
                        [] key = "progress" -> [current |-> 0, total |-> 0, pct |-> 0]
                        [] key = "message" -> ""
                        [] key = "summary" -> [downloaded |-> 0, errors |-> 0]
           next == (key :> DictGet(call.job, key, default)) @@ view
       IN result' = [returned |-> Cardinality(DOMAIN next) > Len(StatusKeys),
                     view |-> next]
    /\ call' = call
    /\ DownloaderUnchanged
    /\ UNCHANGED fixer

NextStatus ==
    \/ \E raw_items \in StatusBatches : Download(raw_items)
    \/ WorkerStep
    \/ \E job_id \in JobIds : StatusGet(job_id)
    \/ StatusRead

SpecStatus == Init /\ [][NextStatus]_vars

\* the same while hours pass, so that a submission purges a job whose
\* worker is running
NextPurge ==
    \/ \E raw_items \in StatusBatches : Download(raw_items)
    \/ Tick
    \/ WorkerStep
    \/ \E job_id \in JobIds : StatusGet(job_id)
    \/ StatusRead

SpecPurge == Init /\ [][NextPurge]_vars

---------------------------------------------------------------------------
(* The except clause of _run_download_job on a failed request.             *)

\* the credential _prepare_headers puts into the request of an item
CredentialUsed(token, env_token) == IF token # "" THEN token ELSE env_token

\* what str(e) can be for a request made with credential cred: texts that
\* do not name it, and texts that quote the Authorization header once or
\* twice (http.client: "Invalid header value b'Bearer ...'")
ExceptionTexts(cred) ==
    {"timed out", "HTTP Error 401: Unauthorized", "sha256 mismatch",
     "Invalid header value b'Bearer " \o cred \o "'",
     cred,
     "HTTP Error 403: " \o cred \o " rejected",
     "Bearer " \o cred \o " / " \o cred,
     cred \o cred}

FailureCalls ==
    UNION {[fn : {"_run_download_job.except"}, token : {token}, env_token : {env_token},
            e : ExceptionTexts(CredentialUsed(token, env_token))] :
              token \in {"", "tk", "hf_A1"}, env_token \in {"", "ev", "hf_E2"}}

InitFailure ==
    /\ DownloaderIdle
    /\ FixerIdle
    /\ call \in FailureCalls
    /\ result = [returned |-> FALSE]

\* error_msg is computed, logged and put into the item's result
RunDownloadJobExcept ==
    /\ call.fn = "_run_download_job.except"
    /\ ~result.returned
    /\ LET item == [key |-> "k", filename |-> "k.pt", token |-> call.token]
           error_msg == _sanitize_error_message(call.e, item)
       IN result' = [returned |-> TRUE,
                     logged |-> "Download failed for " \o item.key \o ": " \o error_msg,
                     entry |-> [key |-> item.key, filename |-> item.filename,
                                status |-> "error", error |-> error_msg]]
    /\ call' = call
    /\ DownloaderUnchanged
    /\ UNCHANGED fixer

NextFailure == RunDownloadJobExcept

SpecFailure == InitFailure /\ [][NextFailure]_vars


---------------------------------------------------------------------------
(* JSON documents as Python sees them.                                     *)
(* A value is a record of its type t and its content: s for a string, n    *)
(* for a number (a bool is 0 or 1, a float the integer it equals: mtimes   *)
(* and schema numbers have no fraction), l for a list, d for a dict.       *)

JValue(t, s, n, l, d) == [t |-> t, s |-> s, n |-> n, l |-> l, d |-> d]

NoEntries == [k \in {} |-> 0]

JNull == JValue("null", "", 0, <<>>, NoEntries)
JBool(b) == JValue("bool", "", IF b THEN 1 ELSE 0, <<>>, NoEntries)
JInt(n) == JValue("int", "", n, <<>>, NoEntries)
JFloat(n) == JValue("float", "", n, <<>>, NoEntries)
JStr(s) == JValue("str", s, 0, <<>>, NoEntries)
JList(seq) == JValue("list", "", 0, seq, NoEntries)

\* the dict with the given <<key, value>> pairs
JDict(pairs) ==
    JValue("dict", "", 0, <<>>,
           [k \in {p[1] : p \in pairs} |-> (CHOOSE p \in pairs : p[1] = k)[2]])

\* what a file holds: nothing (no file), text that is not JSON, or a document
Missing == JValue("missing", "", 0, <<>>, NoEntries)
Malformed(text) == JValue("malformed", text, 0, <<>>, NoEntries)

\* a long string: s followed by n more characters "x"
JLong(s, n) == JValue("str", s, n, <<>>, NoEntries)

MAX_JSON_SIZE == 10485760

\* the bytes of the text json.dumps writes for a document, counted from
\* below: quotes, brackets and separators, no indentation
RECURSIVE JsonSize(_), JsonSizeSeq(_), JsonSizeEntries(_, _)
JsonSize(v) ==
    CASE v.t \in {"null", "bool"} -> 4
      [] v.t \in {"int", "float"} -> 1
      [] v.t = "str" -> Len(v.s) + v.n + 2
      [] v.t = "malformed" -> Len(v.s)
      [] v.t = "list" -> 2 + JsonSizeSeq(v.l)
      [] v.t = "dict" -> 2 + JsonSizeEntries(v.d, DOMAIN v.d)
      [] OTHER -> 0

JsonSizeSeq(l) == IF l = <<>> THEN 0 ELSE JsonSize(Head(l)) + 1 + JsonSizeSeq(Tail(l))

JsonSizeEntries(d, keys) ==
    IF keys = {} THEN 0
    ELSE LET k == CHOOSE k \in keys : TRUE
         IN Len(k) + 4 + JsonSize(d[k]) + JsonSizeEntries(d, keys \ {k})

\* a file whose read is refused (PermissionError, OSError)
Unreadable == JValue("unreadable", "", 0, <<>>, NoEntries)

\* project_store.read_json(path, default, strict=False): the default for no
\* file, a file over MAX_JSON_SIZE bytes, text that is not JSON, and a file
\* that cannot be read
read_json(stored, default) ==
    IF stored.t = "missing" THEN default
    ELSE IF JsonSize(stored) > MAX_JSON_SIZE THEN default
    ELSE IF stored.t \in {"malformed", "unreadable"} THEN default
    ELSE stored

\* a strict read that answers like the lenient one
read_json_lenient(stored, default) ==
    [raised |-> "", value |-> read_json(stored, default)]

\* project_store.read_json(path, default, strict=True): ValueError where the
\* lenient read returns the default for a file that exists
read_json_strict(stored, default) ==
    IF stored.t = "missing" THEN [raised |-> "", value |-> default]
    ELSE IF JsonSize(stored) > MAX_JSON_SIZE
         THEN [raised |-> "ValueError", value |-> JNull]
    ELSE IF stored.t \in {"malformed", "unreadable"}
         THEN [raised |-> "ValueError", value |-> JNull]
    ELSE [raised |-> "", value |-> stored]

\* d.get(key) of a dict
JGet(d, key) == IF key \in DOMAIN d.d THEN d.d[key] ELSE JNull

\* Python's a == b: bool, int and float compare as numbers
PyEq(a, b) ==
    IF a.t \in {"bool", "int", "float"} /\ b.t \in {"bool", "int", "float"}
    THEN a.n = b.n
    ELSE a = b

\* Python's truth value
Truthy(x) ==
    CASE x.t = "null" -> FALSE
      [] x.t \in {"bool", "int", "float"} -> x.n # 0
      [] x.t = "str" -> x.s # ""
      [] x.t = "list" -> x.l # <<>>
      [] x.t = "dict" -> DOMAIN x.d # {}

\* str(x or "")
StrOrEmpty(x) ==
    IF ~Truthy(x) THEN ""
    ELSE CASE x.t = "str" -> x.s
           [] x.t = "int" -> ToString(x.n)
           [] x.t = "float" -> ToString(x.n) \o ".0"
           [] x.t = "bool" -> "True"
           [] OTHER -> "<object>"

FINGERPRINT_SCHEMA == 1

SCHEMA_VERSION == 1

\* the empty default of both loaders
EmptyStore(schema) == [schema |-> schema, updated_at |-> "", items |-> <<>>]

\* the body shared by _load_fingerprint_cache and load_sources
LoadStore(stored, schema) ==
    LET data == read_json(stored, JDict({}))
    IN IF data.t # "dict" \/ ~PyEq(JGet(data, "schema"), JInt(schema))
       THEN EmptyStore(schema)
       ELSE [schema |-> schema,
             updated_at |-> StrOrEmpty(JGet(data, "updated_at")),
             items |-> IF JGet(data, "items").t = "list" THEN JGet(data, "items").l
                       ELSE <<>>]

_load_fingerprint_cache(stored) == LoadStore(stored, FINGERPRINT_SCHEMA)

load_sources(stored) == LoadStore(stored, SCHEMA_VERSION)

---------------------------------------------------------------------------
(* The loaders called on whatever a file may hold.                         *)

StoredItem ==
    JDict({<<"key", JStr("a.pt")>>, <<"kind", JStr("loras")>>,
           <<"relpath", JStr("x.safetensors")>>, <<"size", JInt(1)>>,
           <<"mtime", JFloat(10)>>, <<"fingerprint", JStr("f0")>>})

StoredSchemas ==
    {JInt(1), JInt(2), JInt(0), JStr("1"), JBool(TRUE), JFloat(1), JNull}

StoredObjects ==
    {JDict(schema \cup items \cup updated_at) :
        schema \in {{}} \cup {{<<"schema", s>>} : s \in StoredSchemas},
        items \in {{}} \cup {{<<"items", i>>} :
                      i \in {JList(<<>>), JList(<<StoredItem>>), JStr("x")}},
        updated_at \in {{}, {<<"updated_at", JStr("2026-01-01T00:00:00")>>}}}

StoredTexts ==
    {Missing, Malformed(""), Malformed("{\"schema\": 1,"),
     JNull, JBool(TRUE), JInt(1), JStr("schema"), JList(<<>>), JList(<<StoredItem>>)}
    \cup StoredObjects

LoadCalls ==
    [fn : {"_load_fingerprint_cache", "load_sources"}, stored : StoredTexts]

InitLoad ==
    /\ DownloaderIdle
    /\ FixerIdle
    /\ call \in LoadCalls
    /\ result = [returned |-> FALSE]

Load ==
    /\ call.fn \in {"_load_fingerprint_cache", "load_sources"}
    /\ ~result.returned
    /\ result' = [returned |-> TRUE,
                  value |-> IF call.fn = "load_sources"
                            THEN load_sources(call.stored)
                            ELSE _load_fingerprint_cache(call.stored)]
    /\ call' = call
    /\ DownloaderUnchanged
    /\ UNCHANGED fixer

NextLoad == Load

SpecLoad == InitLoad /\ [][NextLoad]_vars

---------------------------------------------------------------------------
(* The fingerprint cache build, run in threads by asyncio.to_thread.       *)

MaxBuilds == 2      \* build requests in one run

CachePath == "PROJECTS/_INDEX/model_fingerprints.json"

Stored(path) == IF path \in DOMAIN json_files THEN json_files[path] ELSE Missing

\* folder_paths.get_filename_list(kind)
_list_kind_files(kind) ==
    CASE kind = "loras" -> <<"x.safetensors", "sub/y.pt">>
      [] kind = "vae" -> <<"v.pt">>
      [] OTHER -> <<>>

\* the bytes _hash_file reads: everything of a file under two chunks, else
\* the first and the last chunk (a character of data is one chunk of 1 MiB)
Sampled(data) ==
    IF Len(data) < 2 THEN data ELSE Char(data, 1) \o Char(data, Len(data))

\* sha256(sampled bytes + str(size)).hexdigest(), kept symbolic
_hash_file(file) == "sha256(" \o Sampled(file.data) \o ToString(file.size) \o ")"

\* the dict existing: (kind, relpath) -> the last stored item with that key
RECURSIVE Existing(_, _)
Existing(items, acc) ==
    IF items = <<>> THEN acc
    ELSE LET item == Head(items)
             kind == JGet(item, "kind")
             relpath == JGet(item, "relpath")
         IN Existing(Tail(items),
                     IF kind.t = "str" /\ relpath.t = "str"
                     THEN (<<kind.s, relpath.s>> :> item) @@ acc
                     ELSE acc)

\* the files of the kinds, in the order the two loops visit them
RECURSIVE KindsFiles(_)
KindsFiles(kinds) ==
    IF kinds = <<>> THEN <<>>
    ELSE [i \in 1..Len(_list_kind_files(Head(kinds))) |->
            <<Head(kinds), _list_kind_files(Head(kinds))[i]>>]
         \o KindsFiles(Tail(kinds))

\* a reuse decided on the size alone
Reusable_by_size(force, existing, key, size, mtime) ==
    /\ ~force
    /\ key \in DOMAIN existing
    /\ PyEq(JGet(existing[key], "size"), JInt(size))
    /\ Truthy(JGet(existing[key], "fingerprint"))

\* the condition under which the previous fingerprint is kept
Reusable(force, existing, key, size, mtime) ==
    /\ ~force
    /\ key \in DOMAIN existing
    /\ Truthy(existing[key])
    /\ PyEq(JGet(existing[key], "size"), JInt(size))
    /\ PyEq(JGet(existing[key], "mtime"), JFloat(mtime))
    /\ Truthy(JGet(existing[key], "fingerprint"))

CacheItem(kind, relpath, size, mtime, fingerprint) ==
    JDict({<<"kind", JStr(kind)>>, <<"relpath", JStr(relpath)>>, <<"size", JInt(size)>>,
           <<"mtime", JFloat(mtime)>>, <<"fingerprint", fingerprint>>})

\* a lock that lets everybody in
LockFree_always(lock) == TRUE

\* threading.Lock: free when nobody holds it
LockFree(lock) == lock = ""

BuildKinds == { <<"loras">>, <<"loras", "vae">> }

BuilderIds == {"t" \o ToString(n) : n \in 1..MaxBuilds}

\* POST /mjr_models/build_fingerprint_cache: the build starts in a thread
BuildRequest(kinds, force) ==
    /\ Cardinality(DOMAIN builder) < MaxBuilds
    /\ LET b == "t" \o ToString(Cardinality(DOMAIN builder) + 1)
       IN builder' = (b :> [pc |-> "acquire", kinds |-> kinds, force |-> force]) @@ builder
    /\ UNCHANGED <<json_files, library, _fingerprint_cache_lock>>
    /\ DownloaderUnchanged
    /\ UNCHANGED <<call, result>>

Building(b, pc) == b \in DOMAIN builder /\ builder[b].pc = pc

BuildFrame ==
    /\ DownloaderUnchanged
    /\ UNCHANGED <<call, result>>

\* with _fingerprint_cache_lock: the thread waits until the lock is free
BuildAcquire(b) ==
    /\ Building(b, "acquire")
    /\ LockFree(_fingerprint_cache_lock)
    /\ _fingerprint_cache_lock' = b
    /\ builder' = [builder EXCEPT ![b].pc = "load"]
    /\ UNCHANGED <<json_files, library>>
    /\ BuildFrame

\* the previous cache is loaded and indexed; an item that is not an object
\* makes item.get raise and ends the build
BuildLoad(b) ==
    /\ Building(b, "load")
    /\ LET cache == _load_fingerprint_cache(Stored(CachePath))
       IN IF \E i \in 1..Len(cache.items) : cache.items[i].t # "dict"
          THEN builder' = [builder EXCEPT ![b] =
                   [pc |-> "release", kinds |-> @.kinds, force |-> @.force,
                    failed |-> "AttributeError"]]
          ELSE builder' = [builder EXCEPT ![b] =
                   [pc |-> "scan", kinds |-> @.kinds, force |-> @.force,
                    loaded |-> Stored(CachePath),
                    existing |-> Existing(cache.items, NoEntries),
                    todo |-> KindsFiles(@.kinds),
                    items |-> <<>>, how |-> <<>>, skipped |-> <<>>,
                    hashed |-> 0, reused |-> 0, total |-> 0]]
    /\ UNCHANGED <<json_files, library, _fingerprint_cache_lock>>
    /\ BuildFrame

\* a file that cannot be fingerprinted ends the whole build
ScanSkip_abort(w, key, why) ==
    [pc |-> "release", kinds |-> w.kinds, force |-> w.force, failed |-> why]

\* a skip that counts the file as hashed
ScanSkip_hashed(w, key, why) ==
    [w EXCEPT !.todo = Tail(@),
              !.total = @ + 1,
              !.hashed = @ + 1,
              !.skipped = Append(@, [at |-> w.total + 1, key |-> key, why |-> why])]

\* `continue`: the file is counted in total and left out; skipped records
\* the files left out and why
ScanSkip(w, key, why) ==
    [w EXCEPT !.todo = Tail(@),
              !.total = @ + 1,
              !.skipped = Append(@, [at |-> w.total + 1, key |-> key, why |-> why])]

\* one turn of the inner loop: the file is resolved and stat-ed and its
\* fingerprint reused or computed; how records which of the two happened.
\* A file that is listed but gone has no full path, or its stat fails; a
\* file that cannot be opened makes _hash_file raise.
BuildScan(b) ==
    /\ Building(b, "scan")
    /\ builder[b].todo # <<>>
    /\ LET w == builder[b]
           key == Head(w.todo)
       IN IF key \notin DOMAIN library
          THEN builder' = [builder EXCEPT ![b] = ScanSkip(w, key, "stat")]
          ELSE LET file == library[key]
                   reuse == Reusable(w.force, w.existing, key, file.size, file.mtime)
                   fingerprint == IF reuse THEN JGet(w.existing[key], "fingerprint")
                                  ELSE JStr(_hash_file(file))
               IN IF ~reuse /\ ~file.readable
                  THEN builder' = [builder EXCEPT ![b] = ScanSkip(w, key, "hash")]
                  ELSE builder' = [builder EXCEPT ![b] =
                          [w EXCEPT !.todo = Tail(@),
                                    !.total = @ + 1,
                                    !.reused = IF reuse THEN @ + 1 ELSE @,
                                    !.hashed = IF reuse THEN @ ELSE @ + 1,
                                    !.how = Append(@, IF reuse THEN "reused" ELSE "hashed"),
                                    !.items = Append(@, CacheItem(key[1], key[2], file.size,
                                                                  file.mtime, fingerprint))]]
    /\ UNCHANGED <<json_files, library, _fingerprint_cache_lock>>
    /\ BuildFrame

\* a writer that writes the text into the file itself
WriteTarget_in_place(path, b) == path

\* write_json_atomic's temp file, named after a fresh uuid
WriteTarget(path, b) == path \o "." \o b \o ".tmp"

\* the document a build writes
BuildPayload(w, updated_at) ==
    JDict({<<"schema", JInt(FINGERPRINT_SCHEMA)>>,
           <<"updated_at", JStr(updated_at)>>,
           <<"items", JList(w.items)>>})

\* after the loops write_json_atomic starts writing the text: the file
\* written to holds the beginning of it
BuildWrite(b) ==
    /\ Building(b, "scan")
    /\ builder[b].todo = <<>>
    /\ json_files' = (WriteTarget(CachePath, b) :> Malformed("{")) @@ json_files
    /\ builder' = [builder EXCEPT ![b].pc = "replace"]
    /\ UNCHANGED <<library, _fingerprint_cache_lock>>
    /\ BuildFrame

\* the text is complete, the temp file replaces the cache file, and the
\* statistics are returned
BuildReplace(b) ==
    /\ Building(b, "replace")
    /\ LET w == builder[b]
           updated_at == "T" \o ToString(now)
       IN /\ json_files' =
                [p \in (DOMAIN json_files \ {WriteTarget(CachePath, b)}) \cup {CachePath} |->
                    IF p = CachePath THEN BuildPayload(w, updated_at) ELSE json_files[p]]
          /\ builder' = [builder EXCEPT ![b] =
                 [returned |-> [count |-> Len(w.items), hashed |-> w.hashed,
                                reused |-> w.reused, total |-> w.total,
                                updated_at |-> updated_at]]
                 @@ [w EXCEPT !.pc = "release"]]
    /\ UNCHANGED <<library, _fingerprint_cache_lock>>
    /\ BuildFrame

\* the with block is left and the thread returns
BuildRelease(b) ==
    /\ Building(b, "release")
    /\ _fingerprint_cache_lock' =
          IF _fingerprint_cache_lock = b THEN "" ELSE _fingerprint_cache_lock
    /\ builder' = [builder EXCEPT ![b].pc = "done"]
    /\ UNCHANGED <<json_files, library>>
    /\ BuildFrame

\* somebody replaces a model file: new bytes, new mtime
Touch(key) ==
    /\ key \in DOMAIN library
    /\ library[key] = ModelLibrary[key]
    /\ library' = [library EXCEPT ![key] =
                      [size |-> @.size, mtime |-> @.mtime + 1, data |-> "w" \o Tail(@.data),
                       readable |-> @.readable]]
    /\ UNCHANGED <<json_files, _fingerprint_cache_lock, builder>>
    /\ BuildFrame

\* a cache somebody left behind: one usable record, one without fingerprint
LeftCache ==
    JDict({<<"schema", JInt(FINGERPRINT_SCHEMA)>>, <<"updated_at", JStr("T")>>,
           <<"items", JList(<<CacheItem("loras", "x.safetensors", 1, 10, JStr("")),
                              CacheItem("vae", "v.pt", 1, 11, JStr("kept"))>>)>>})

InitBuild ==
    /\ DownloaderIdle
    /\ json_files \in {[f \in {} |-> 0], (CachePath :> LeftCache)}
    /\ library = ModelLibrary
    /\ _fingerprint_cache_lock = ""
    /\ builder = [b \in {} |-> 0]
    /\ call = [fn |-> "none"]
    /\ result = [returned |-> FALSE]

NextBuild ==
    \/ \E kinds \in BuildKinds, force \in BOOLEAN : BuildRequest(kinds, force)
    \/ \E b \in BuilderIds : BuildAcquire(b)
    \/ \E b \in BuilderIds : BuildLoad(b)
    \/ \E b \in BuilderIds : BuildScan(b)
    \/ \E b \in BuilderIds : BuildWrite(b)
    \/ \E b \in BuilderIds : BuildReplace(b)
    \/ \E b \in BuilderIds : BuildRelease(b)
    \/ \E key \in {<<"loras", "x.safetensors">>, <<"vae", "v.pt">>} : Touch(key)

SpecBuild == InitBuild /\ [][NextBuild]_vars

----------------------------------------------------------------------------
(* Builds over any list of kinds while files disappear or become           *)
(* unreadable.                                                             *)

\* the kinds a request may name: the route keeps every known name of the
\* list it is sent, in the order sent
ScanKinds == { <<"loras">>, <<"vae">>, <<"loras", "vae">>, <<"loras", "loras">> }

\* a model file is deleted; folder_paths still lists it
Vanish(key) ==
    /\ key \in DOMAIN library
    /\ library' = [k \in DOMAIN library \ {key} |-> library[k]]
    /\ UNCHANGED <<json_files, _fingerprint_cache_lock, builder>>
    /\ BuildFrame

\* a model file loses its read permission: stat works, open does not
Deny(key) ==
    /\ key \in DOMAIN library
    /\ library[key].readable
    /\ library' = [library EXCEPT ![key].readable = FALSE]
    /\ UNCHANGED <<json_files, _fingerprint_cache_lock, builder>>
    /\ BuildFrame

NextScan ==
    \/ \E kinds \in ScanKinds, force \in BOOLEAN : BuildRequest(kinds, force)
    \/ \E b \in BuilderIds : BuildAcquire(b)
    \/ \E b \in BuilderIds : BuildLoad(b)
    \/ \E b \in BuilderIds : BuildScan(b)
    \/ \E b \in BuilderIds : BuildWrite(b)
    \/ \E b \in BuilderIds : BuildReplace(b)
    \/ \E b \in BuilderIds : BuildRelease(b)
    \/ \E key \in {<<"loras", "x.safetensors">>} : Vanish(key)
    \/ \E key \in {<<"loras", "sub/y.pt">>, <<"vae", "v.pt">>} : Deny(key)

SpecScan == InitBuild /\ [][NextScan]_vars

----------------------------------------------------------------------------
(* The two routes that read the cache file, beside running builds.         *)

\* the loop of the lookup: the relpath of the first item that has the kind
\* and the fingerprint, None when there is none
RECURSIVE FirstRelpath(_, _, _)
FirstRelpath(items, kind, fingerprint) ==
    IF items = <<>> THEN [raised |-> "", relpath |-> JNull]
    ELSE IF Head(items).t # "dict" THEN [raised |-> "AttributeError", relpath |-> JNull]
    ELSE IF /\ JGet(Head(items), "kind") = JStr(kind)
            /\ JGet(Head(items), "fingerprint") = JStr(fingerprint)
         THEN [raised |-> "", relpath |-> JGet(Head(items), "relpath")]
         ELSE FirstRelpath(Tail(items), kind, fingerprint)

\* POST /mjr_models/resolve_by_fingerprint on the cache file as stored
mjr_models_resolve_by_fingerprint(stored, raw_kind, raw_fingerprint) ==
    IF Strip(raw_kind) = "" THEN [status |-> 400, error |-> "kind is required"]
    ELSE IF Strip(raw_fingerprint) = ""
         THEN [status |-> 400, error |-> "fingerprint is required"]
    ELSE LET found == FirstRelpath(_load_fingerprint_cache(stored).items,
                                   Strip(raw_kind), Strip(raw_fingerprint))
         IN IF found.raised # "" THEN [status |-> 500, error |-> found.raised]
            ELSE [status |-> 200, ok |-> TRUE, relpath |-> found.relpath]

\* GET /mjr_models/fingerprint_cache_status on the cache file as stored
mjr_models_fingerprint_cache_status(stored) ==
    [status |-> 200, ok |-> TRUE,
     count |-> Len(_load_fingerprint_cache(stored).items),
     updated_at |-> _load_fingerprint_cache(stored).updated_at]

\* what the lookups are asked for
LookupKinds == {"vae ", ""}

LookupFingerprints == {"kept", "sha256(v1)"}

\* a lookup is served by the event loop: it reads the file, takes no lock;
\* beside records the build that held the lock as the lookup was served
ResolveByFingerprint(kind, fingerprint) ==
    /\ call' = [fn |-> "mjr_models_resolve_by_fingerprint",
                kind |-> kind, fingerprint |-> fingerprint]
    /\ result' = [returned |-> TRUE, beside |-> _fingerprint_cache_lock,
                  response |-> mjr_models_resolve_by_fingerprint(
                                   Stored(CachePath), kind, fingerprint)]
    /\ UNCHANGED <<json_files, library, _fingerprint_cache_lock, builder>>
    /\ DownloaderUnchanged

CacheStatus ==
    /\ call' = [fn |-> "mjr_models_fingerprint_cache_status"]
    /\ result' = [returned |-> TRUE, beside |-> _fingerprint_cache_lock,
                  response |-> mjr_models_fingerprint_cache_status(Stored(CachePath))]
    /\ UNCHANGED <<json_files, library, _fingerprint_cache_lock, builder>>
    /\ DownloaderUnchanged

NextLookup ==
    \/ \E kinds \in BuildKinds, force \in BOOLEAN : BuildRequest(kinds, force)
    \/ \E b \in BuilderIds : BuildAcquire(b)
    \/ \E b \in BuilderIds : BuildLoad(b)
    \/ \E b \in BuilderIds : BuildScan(b)
    \/ \E b \in BuilderIds : BuildWrite(b)
    \/ \E b \in BuilderIds : BuildReplace(b)
    \/ \E b \in BuilderIds : BuildRelease(b)
    \/ \E kind \in LookupKinds, fingerprint \in LookupFingerprints :
          ResolveByFingerprint(kind, fingerprint)
    \/ CacheStatus

SpecLookup == InitBuild /\ [][NextLookup]_vars

---------------------------------------------------------------------------
(* The recipe store, model_sources.json, and its two routes.               *)

SourcesPath == "PROJECTS/_INDEX/model_sources.json"

\* model_sources_store._basename
_basename(value) == OsBasename(Replace(value, "\\", "/"))

\* the characters of the keys in use, in code point order
CodePoints == "-.0123456789ABCDEFGHIJKLMNOPQRSTUVWXYZ_abcdefghijklmnopqrstuvwxyz"

\* the rank of a character among them: it orders as ord(c) does
Ord(c) == Find(CodePoints, c)

\* Python's a < b on str
RECURSIVE StrLess(_, _)
StrLess(a, b) ==
    IF b = "" THEN FALSE
    ELSE IF a = "" THEN TRUE
    ELSE IF Char(a, 1) = Char(b, 1) THEN StrLess(Tail(a), Tail(b))
    ELSE Ord(Char(a, 1)) < Ord(Char(b, 1))

\* isinstance(key, str) and key, for key = item.get("key")
HasKey(item) == JGet(item, "key").t = "str" /\ JGet(item, "key").s # ""

\* the loop `for item in ...: if key is a non-empty str: acc[key] = item`
RECURSIVE ByKey(_, _)
ByKey(items, acc) ==
    IF items = <<>> THEN acc
    ELSE ByKey(Tail(items),
               IF HasKey(Head(items))
               THEN (JGet(Head(items), "key").s :> Head(items)) @@ acc
               ELSE acc)

\* sorted(merged.values(), key=lambda x: x.get("key", "")): every value's
\* key is the key it is filed under, and no two are equal
RECURSIVE SortedValues(_, _)
SortedValues(merged, keys) ==
    IF keys = {} THEN <<>>
    ELSE LET least == CHOOSE k \in keys : \A o \in keys : ~StrLess(o, k)
         IN <<merged[least]>> \o SortedValues(merged, keys \ {least})

\* model_sources_store.save_recipes(items), the file holding `stored`:
\* the document written, or the AttributeError of item.get on a non-dict
save_recipes(stored, items, updated_at) ==
    LET data == load_sources(stored)
        all == data.items \o items
    IN IF \E i \in 1..Len(all) : all[i].t # "dict"
       THEN [raised |-> "AttributeError", payload |-> stored]
       ELSE LET merged == ByKey(items, ByKey(data.items, NoEntries))
            IN [raised |-> "",
                payload |-> JDict({<<"schema", JInt(SCHEMA_VERSION)>>,
                                   <<"updated_at", JStr(updated_at)>>,
                                   <<"items", JList(SortedValues(merged, DOMAIN merged))>>})]

\* one element of the list resolve_recipes returns; entry is a dict or null
ResolvedEntry(by_key, entry) ==
    LET missing_value ==
            StrOrEmpty(JGet(IF Truthy(entry) THEN entry ELSE JDict({}), "missing_value"))
        key == _basename(missing_value)
        recipe == IF key \in DOMAIN by_key THEN by_key[key] ELSE JNull
        kind == IF recipe.t = "dict" THEN JGet(recipe, "kind") ELSE JStr("")
    IN JDict({<<"missing_value", JStr(missing_value)>>,
              <<"key", JStr(key)>>,
              <<"kind", IF Truthy(kind) THEN kind ELSE JStr("")>>,
              <<"recipe", IF Truthy(recipe) THEN recipe ELSE JNull>>})

\* model_sources_store.resolve_recipes(missing), the file holding `stored`
resolve_recipes(stored, missing) ==
    LET data == load_sources(stored)
        by_key == ByKey(data.items, NoEntries)
    IN [i \in 1..Len(missing) |-> ResolvedEntry(by_key, missing[i])]

MAX_MISSING == 200

TYPE_HINT_KIND ==
    [h \in {"checkpoint", "diffusion", "diffusion_models", "lora", "vae", "controlnet",
            "upscale_models", "clip", "clip_vision", "text_encoder", "text_encoders",
            "unet", "embeddings", "unknown"} |->
        CASE h = "checkpoint" -> "checkpoints"
          [] h = "diffusion" -> "diffusion_models"
          [] h = "lora" -> "loras"
          [] h = "text_encoder" -> "text_encoders"
          [] h = "unknown" -> ""
          [] OTHER -> h]

\* d[key] = value on a dict
DictSet(d, key, value) == JValue("dict", "", 0, <<>>, (key :> value) @@ d.d)

\* d.pop(key, None) on a dict
DictPop(d, key) ==
    JValue("dict", "", 0, <<>>, [k \in DOMAIN d.d \ {key} |-> d.d[k]])

\* the body of mjr_models_resolve_recipes after the body is parsed; found is
\* what search_all_platforms finds for any query: the results of all
\* platforms in one list
mjr_models_resolve_recipes(stored, raw_missing, auto_search, found) ==
    IF Len(raw_missing) > MAX_MISSING
    THEN json_error("missing exceeds limit (" \o ToString(MAX_MISSING) \o ")")
    ELSE LET resolved == resolve_recipes(stored, raw_missing)
             Searched(entry) ==
                 IF JGet(entry, "missing_value").s = "" \/ JGet(entry, "key").s = ""
                    \/ found = <<>>
                 THEN entry
                 ELSE DictSet(DictSet(entry, "auto_search_result", found[1]),
                              "kind",
                              IF "type" \in DOMAIN found[1].d THEN found[1].d["type"]
                              ELSE JStr(""))
             Hinted(entry, missing) ==
                 LET hint == Lower(StrOrEmpty(
                                 JGet(IF Truthy(missing) THEN missing ELSE JDict({}),
                                      "type_hint")))
                 IN DictSet(entry, "kind",
                            JStr(IF hint \in DOMAIN TYPE_HINT_KIND
                                 THEN TYPE_HINT_KIND[hint] ELSE ""))
         IN [ok |-> TRUE, status |-> 200,
             resolved |-> [i \in 1..Len(resolved) |->
                 IF Truthy(JGet(resolved[i], "recipe")) THEN resolved[i]
                 ELSE IF auto_search THEN Searched(resolved[i])
                 ELSE Hinted(resolved[i], raw_missing[i])]]

\* x or None, as a JSON value
StrOrNone(s) == IF s = "" THEN JNull ELSE JStr(s)

\* the dict _validate_item returns, for the validated fields of a raw item
\* whose url goes on for pad more characters in its query
ItemDict(item, pad) ==
    JDict({<<"key", JStr(item.key)>>, <<"kind", JStr(item.kind)>>,
           <<"url", JLong(item.url, pad)>>,
           <<"filename", JStr(item.filename)>>,
           <<"sha256", StrOrNone(item.sha256)>>,
           <<"token", StrOrNone(item.token)>>})

\* the loop of mjr_models_save_recipes over raw_items: the first reason met,
\* or the validated items, each without its token
RECURSIVE RecipeItems(_, _)
RecipeItems(raw_items, items) ==
    IF raw_items = <<>> THEN [items |-> items, err |-> ""]
    ELSE LET v == _validate_item(Head(raw_items))
         IN IF v.err # "" THEN [items |-> <<>>, err |-> v.err]
            ELSE RecipeItems(Tail(raw_items),
                             Append(items, DictPop(ItemDict(v.item, Head(raw_items).pad),
                                                   "token")))

\* the end of mjr_models_save_recipes, s being what save_recipes did
SaveResponse(s) ==
    IF s.raised # ""
    THEN [response |-> [ok |-> FALSE, error |-> s.raised, status |-> 500],
          payload |-> s.payload]
    ELSE [response |-> [ok |-> TRUE, status |-> 200], payload |-> s.payload]

MaxSaves == 2

RecipeRaw(key, url, kind, filename, sha256, token, pad) ==
    [key |-> key, url |-> url, kind |-> kind, filename |-> filename,
     sha256 |-> sha256, token |-> token, pad |-> pad]

\* the bodies posted to /mjr_models/save_recipes
SaveRequests ==
    { \* one recipe, sent with a token
      <<RecipeRaw("models/a.pt", "https://h.io/a.pt", "lora", "", "", " secret ", 0)>>,
      \* a new key, and other data for a.pt
      <<RecipeRaw("b.pt", "https://h.io/b.pt", "vae", "", "", "", 0),
        RecipeRaw("a.pt", " https://g.io/a2.pt", "Checkpoint", "a.pt",
                  "3E23E8160039594A33894F6564E1B1348BBD7A0088D42C4ACB73EEAED59C009D",
                  "", 0)>>,
      \* a key that sorts before the lower-case ones
      <<RecipeRaw("sub\\C.pt", "https://h.io/C.pt", "unet", "", "", "t0", 0)>>,
      \* one key twice
      <<RecipeRaw("a.pt", "https://h.io/a.pt", "lora", "", "", "", 0),
        RecipeRaw("a.pt", "https://h.io/a3.pt", "lora", "a.pt", "", "", 0)>>,
      \* a recipe with a very long url
      <<RecipeRaw("big.pt", "https://h.io/big.pt?", "clip", "", "", "", 11000000)>>,
      \* the second item has no key
      <<RecipeRaw("d.pt", "https://h.io/d.pt", "lora", "", "", "", 0),
        RecipeRaw("", "https://h.io/e.pt", "lora", "", "", "", 0)>> }

MissingRef(missing_value, type_hint) ==
    JDict({<<"missing_value", JStr(missing_value)>>, <<"type_hint", JStr(type_hint)>>})

\* the lists posted to /mjr_models/resolve_recipes
ResolveRequests ==
    { <<MissingRef("models/loras/a.pt", "lora")>>,
      <<MissingRef("sub\\C.pt", "Checkpoint"), MissingRef("foo.safetensors", "lora")>>,
      <<JDict({<<"missing_value", JStr("big.pt")>>}), JNull, MissingRef("b.pt", "nonsense"),
        MissingRef("m.pt", "vae")>> }

\* the validation loop's outcome for each body
ValidatedRecipes == [raw_items \in SaveRequests |-> RecipeItems(raw_items, <<>>)]

\* the body of mjr_models_save_recipes after the body is parsed: the
\* response and the document the store file holds afterwards
mjr_models_save_recipes(stored, raw_items, updated_at) ==
    IF Len(raw_items) > MAX_ITEMS
    THEN [response |-> json_error("too many items"), payload |-> stored]
    ELSE IF ValidatedRecipes[raw_items].err # ""
    THEN [response |-> json_error(ValidatedRecipes[raw_items].err), payload |-> stored]
    ELSE SaveResponse(save_recipes(stored, ValidatedRecipes[raw_items].items, updated_at))

\* what the online search may find: nothing, or a model
SearchResults ==
    { <<>>, <<JDict({<<"type", JStr("LORA")>>, <<"name", JStr("foo")>>})>> }

\* a store as an earlier save left it
LeftRecipe ==
    JDict({<<"key", JStr("m.pt")>>, <<"kind", JStr("vae")>>,
           <<"url", JStr("https://h.io/m.pt")>>, <<"filename", JStr("m.pt")>>,
           <<"sha256", JNull>>})

LeftStore ==
    JDict({<<"schema", JInt(SCHEMA_VERSION)>>, <<"updated_at", JStr("T0")>>,
           <<"items", JList(<<LeftRecipe>>)>>})

\* call.saves records the validated items of every save that went through
InitRecipes ==
    /\ DownloaderIdle
    /\ library = ModelLibrary
    /\ _fingerprint_cache_lock = ""
    /\ builder = [b \in {} |-> 0]
    /\ \/ /\ json_files = [f \in {} |-> 0]
          /\ call = [fn |-> "none", saves |-> <<>>, n |-> 0]
       \/ /\ json_files = (SourcesPath :> LeftStore)
          /\ call = [fn |-> "none", n |-> 0,
                     saves |-> << <<DictSet(LeftRecipe, "token", JStr("t"))>> >>]
    /\ result = [returned |-> FALSE]

\* POST /mjr_models/save_recipes
SaveRecipes(raw_items) ==
    /\ call.n < MaxSaves
    /\ LET r == mjr_models_save_recipes(Stored(SourcesPath), raw_items,
                                        "T" \o ToString(call.n + 1))
       IN /\ json_files' = IF r.response.ok THEN (SourcesPath :> r.payload) @@ json_files
                           ELSE json_files
          /\ result' = [returned |-> TRUE, response |-> r.response]
          /\ call' = [fn |-> "save_recipes", raw_items |-> raw_items, n |-> call.n + 1,
                      saves |-> IF r.response.ok
                                THEN Append(call.saves,
                                            [i \in 1..Len(raw_items) |->
                                                ItemDict(_validate_item(raw_items[i]).item,
                                                         raw_items[i].pad)])
                                ELSE call.saves]
    /\ UNCHANGED <<library, _fingerprint_cache_lock, builder>>
    /\ DownloaderUnchanged

\* POST /mjr_models/resolve_recipes
ResolveRecipes(raw_missing, auto_search, found) ==
    /\ result' = [returned |-> TRUE,
                  response |-> mjr_models_resolve_recipes(Stored(SourcesPath), raw_missing,
                                                          auto_search, found)]
    /\ call' = [fn |-> "resolve_recipes", missing |-> raw_missing,
                auto_search |-> auto_search, found |-> found,
                n |-> call.n, saves |-> call.saves]
    /\ UNCHANGED fixer
    /\ DownloaderUnchanged

NextRecipes ==
    \/ \E raw_items \in SaveRequests : SaveRecipes(raw_items)
    \/ \E raw_missing \in ResolveRequests, auto_search \in BOOLEAN, found \in SearchResults :
          ResolveRecipes(raw_missing, auto_search, found)

SpecRecipes == InitRecipes /\ [][NextRecipes]_vars

\* every change of a registered job's state is one of the moves given
StateMoves(moves) ==
    \A j \in DOMAIN _jobs \cap DOMAIN _jobs' :
        _jobs[j].state # _jobs'[j].state
            => <<_jobs[j].state, _jobs'[j].state>> \in moves

\* C1 as stated: a job's state moves only queued -> downloading -> done or
\* error; done and error are entered from downloading only and never left.
C1_StateMachineAsStated ==
    [][StateMoves({<<"queued", "downloading">>, <<"downloading", "done">>,
                   <<"downloading", "error">>})]_vars

\* C1 amended: a job's state moves only queued -> downloading, downloading
\* -> done or error, or queued -> done or error directly (a job none of whose
\* items began a download); done and error are never left.
C1_StateMachine ==
    [][StateMoves({<<"queued", "downloading">>, <<"downloading", "done">>,
                   <<"downloading", "error">>, <<"queued", "done">>,
                   <<"queued", "error">>})]_vars

\* one job is done after a download, another is done without any
C1_Witness ==
    \E j, k \in DOMAIN _jobs :
        /\ _jobs[j].state = "done" /\ _jobs[j].summary.downloaded = 1
        /\ _jobs[k].state = "done" /\ _jobs[k].summary.downloaded = 0
        /\ _jobs[k].summary.skipped = 1

CountStatus(results, status) ==
    Cardinality({i \in 1..Len(results) : results[i].status = status})

\* C2: once the worker has processed all items and published the result,
\* the summary counts the items that ended ok, skipped and error, the counts
\* add up to the number of distinct keys of the batch, and the state is done
\* exactly when there was no error and error otherwise.
C2_Summary ==
    \A j \in DOMAIN worker :
        (worker[j].pc = "rmtree" /\ j \in DOMAIN _jobs) =>
            LET w == worker[j]
                job == _jobs[j]
            IN /\ job.summary.downloaded = CountStatus(w.results, "ok")
               /\ job.summary.skipped = CountStatus(w.results, "skipped")
               /\ job.summary.errors = CountStatus(w.results, "error")
               /\ job.summary.downloaded + job.summary.skipped + job.summary.errors
                    = Len(w.items)
               /\ \E raw_items \in Batches :
                    /\ Validated[raw_items].items = w.items
                    /\ Len(w.items) = Cardinality({basename(raw_items[i].key) :
                                                      i \in 1..Len(raw_items)})
               /\ job.state = "done" <=> job.summary.errors = 0
               /\ job.state = "error" <=> job.summary.errors # 0

\* a finished job with one failed and one skipped item
C2_Witness ==
    \E j \in DOMAIN worker :
        /\ worker[j].pc = "rmtree" /\ j \in DOMAIN _jobs
        /\ _jobs[j].state = "error"
        /\ _jobs[j].summary = [downloaded |-> 0, errors |-> 1, skipped |-> 1]

\* C3: the items of a job are begun one at a time in submission order, each
\* exactly once, the next only after the previous one has ended; a failed
\* item is not begun again, and when the loop is over every item has been
\* begun and has ended, whatever failed before it.
C3_Sequential ==
    \A j \in DOMAIN worker :
        LET w == worker[j]
            n == Len(w.started)
        IN /\ w.started = [i \in 1..n |-> i]
           /\ n <= Len(w.items)
           /\ IF w.pc \in {"tmp", "open", "read", "verify", "place"}
              THEN Len(w.results) = n - 1 /\ w.index = n
              ELSE Len(w.results) = n /\ w.index = n + 1
           /\ \A i \in 1..Len(w.results) :
                /\ w.results[i].key = w.items[i].key
                /\ w.results[i].status \in {"ok", "skipped", "error"}
           /\ w.pc = "rmtree" => n = Len(w.items)

\* the loop is over, the first item failed and the second one was processed
C3_Witness ==
    \E j \in DOMAIN worker :
        /\ worker[j].pc = "rmtree"
        /\ Len(worker[j].results) = 2
        /\ worker[j].results[1].status = "error"
        /\ worker[j].started = <<1, 2>>


\* the reason the route gives for each submission with an invalid item
RejectionReason(raw_items) ==
    CASE raw_items = <<ItemA, ItemX>> -> "unsupported extension '.exe'"
      [] raw_items = <<ItemY>> -> "url must start with http or https"
      [] OTHER -> ""

\* C4: a submission one of whose items fails validation is answered with
\* that validation's reason and changes nothing else: the registry (no job
\* added, none purged or changed), the workers and the files stay as they
\* were.
C4_RejectedBatch ==
    [][\A raw_items \in FrontBatches :
          (RejectionReason(raw_items) # "" /\ Download(raw_items))
              => /\ response' = json_error(RejectionReason(raw_items))
                 /\ UNCHANGED <<_jobs, worker, issued, files, dirs>>]_vars

\* a submission has been rejected while an expired job is still registered
\* and a worker is running
C4_Witness ==
    /\ response = json_error("unsupported extension '.exe'")
    /\ \E j \in DOMAIN _jobs : _jobs[j].created_at < now - JOB_CLEANUP_HOURS
    /\ \E j \in DOMAIN worker : worker[j].pc = "read"

InTempDir(path) == StartsWith(path, "models/.mjr_tmp/")

\* C5: when the target file of the item being begun exists, the item ends
\* skipped in that very step: no request is sent for it, no file and no
\* directory is made in the temp area, and all files keep their bytes.
C5_SkipExisting ==
    [][\A j \in JobIds :
          (/\ DownloadSingleCheck(j)
           /\ target_path(worker[j].items[worker[j].index]) \in DOMAIN files)
              => LET w == worker'[j]
                     n == Len(w.results)
                 IN /\ n = Len(worker[j].results) + 1
                    /\ w.results[n].status = "skipped"
                    /\ w.results[n].key = worker[j].items[worker[j].index].key
                    /\ w.pc = "loop" /\ w.index = worker[j].index + 1
                    /\ w.requests = worker[j].requests
                    /\ \A r \in w.requests : r.index # worker[j].index
                    /\ files' = files
                    /\ \A d \in dirs' \ dirs : ~InTempDir(d \o "/")]_vars

\* the item aimed at the user's file was skipped and the file is as it was
C5_Witness ==
    \E j \in DOMAIN worker :
        \E i \in 1..Len(worker[j].results) :
            /\ worker[j].results[i].status = "skipped"
            /\ worker[j].results[i].path = UserFile
            /\ files[UserFile] = "user"
            /\ \A r \in worker[j].requests : r.index # i

\* C6: an item whose content does not have the expected SHA-256 ends as an
\* error, its target path holds no file, and once the next item has begun
\* its partial file no longer exists.
C6_ChecksumMismatch ==
    \A j \in DOMAIN worker :
        LET w == worker[j]
        IN \A i \in 1..Len(w.results) :
              Sha256Mismatch(w.items[i].sha256, Server(w.items[i].url).body)
                  => /\ w.results[i].status = "error"
                     /\ target_path(w.items[i]) \notin DOMAIN files
                     /\ Len(w.started) > i
                           => tmp_path(j, w.items[i]) \notin DOMAIN files

\* the length a server advertises for an item, in bytes
Advertised(item) ==
    IF Server(item.url).length = "" THEN 0
    ELSE ParseInt(Server(item.url).length, 0) * CHUNK_SIZE

\* C7: an item whose advertised length is over the ceiling never gets to the
\* streaming and never has a partial file; an item streaming never holds
\* more than the ceiling; an item whose content is over the ceiling ends as
\* an error for the size, with no file at its target path and none of its
\* temp files left.
C7_SizeCap ==
    \A j \in DOMAIN worker :
        LET w == worker[j]
            cap == _get_max_download_bytes
        IN /\ \A i \in 1..Len(w.items) :
                Advertised(w.items[i]) > cap
                    => /\ tmp_path(j, w.items[i]) \notin DOMAIN files
                       /\ w.index = i => w.pc \in {"loop", "tmp", "open"}
           /\ w.pc \in {"read", "verify", "place"} => w.f.downloaded <= cap
           /\ \A i \in 1..Len(w.results) :
                (\/ Advertised(w.items[i]) > cap
                 \/ Len(Server(w.items[i].url).body) * CHUNK_SIZE > cap)
                    => /\ w.results[i].status = "error"
                       /\ w.results[i].error \in {"download exceeds size limit", "timed out"}
                       /\ target_path(w.items[i]) \notin DOMAIN files
                       /\ tmp_path(j, w.items[i]) \notin DOMAIN files
                       /\ final_tmp(j, w.items[i]) \notin DOMAIN files

\* both oversized items, the advertised one and the measured one, ended as
\* size errors
C7_Witness ==
    \E j \in DOMAIN worker :
        /\ Len(worker[j].results) = 2
        /\ worker[j].items[1].url = "https://h.io/big.pt"
        /\ worker[j].items[2].url = "https://h.io/d.pt"
        /\ \A i \in 1..2 : worker[j].results[i].error = "download exceeds size limit"

\* the items the submissions are made of
AcceptedItems ==
    UNION {{Validated[raw_items].items[i] : i \in 1..Len(Validated[raw_items].items)} :
              raw_items \in Batches}

IsPrefix(s, t) == Len(s) <= Len(t) /\ SubSeq(t, 1, Len(s)) = s

\* C9: every file of the temp area that a step creates, changes, renames or
\* deletes lies in the directory named after a job whose worker took the
\* step, and what it then holds was sent for an item of that job.
C9_TempIsolation ==
    [][\A path \in DOMAIN files \cup DOMAIN files' :
          (/\ InTempDir(path)
           /\ \/ (path \in DOMAIN files) # (path \in DOMAIN files')
              \/ files[path] # files'[path])
              => \E j \in DOMAIN worker :
                    /\ StartsWith(path, "models/.mjr_tmp/" \o j \o "/")
                    /\ j \notin DOMAIN worker' \/ worker'[j] # worker[j]
                    /\ path \in DOMAIN files'
                          => \E i \in 1..Len(worker[j].items) :
                                /\ path \in {"models/.mjr_tmp/" \o j \o "/"
                                                \o worker[j].items[i].filename \o ext :
                                             ext \in {"", ".part"}}
                                /\ IsPrefix(files'[path],
                                            Server(worker[j].items[i].url).body)]_vars

\* two jobs hold partial files of the same name with different contents
C9_Witness ==
    \E j, k \in JobIds :
        /\ j # k
        /\ tmp_path(j, [filename |-> "a.pt"]) \in DOMAIN files
        /\ tmp_path(k, [filename |-> "a.pt"]) \in DOMAIN files
        /\ files[tmp_path(j, [filename |-> "a.pt"])] = "a"
        /\ files[tmp_path(k, [filename |-> "a.pt"])] = "b"


\* the host is one of the providers' domains or a subdomain of one
ProviderDomain(host) ==
    \E domain \in {"huggingface.co", "huggingfaceusercontent.com", "hf.co"} :
        host = domain \/ EndsWith(host, "." \o domain)

\* C10: the headers of a request carry an Authorization line only when the
\* host of the url is a provider domain or a subdomain of one; for every
\* other host there is none, whether a token came with the item or from the
\* environment.
C10_CredentialOnlyToProviders ==
    (result.returned /\ \E h \in result.headers : h.name = "Authorization")
        => ProviderDomain(Lower(UrlNetloc(call.url)))


\* C11: the text logged and the text stored for a failed item never contain
\* the credential used for the item's request, be it the item's token or,
\* when the item has none, the token of the environment.
C11_NoCredentialInErrors ==
    (result.returned /\ CredentialUsed(call.token, call.env_token) # "")
        => /\ ~Contains(result.logged, CredentialUsed(call.token, call.env_token))
           /\ ~Contains(result.entry.error, CredentialUsed(call.token, call.env_token))


\* C12: a record whose state is done or error is, after any step, either
\* exactly as it was or gone from the registry, and it goes only when its
\* created_at is older than the retention window.
C12_TerminalRecordFrozen ==
    [][\A j \in DOMAIN _jobs :
          _jobs[j].state \in {"done", "error"}
              => IF j \in DOMAIN _jobs'
                 THEN _jobs'[j] = _jobs[j]
                 ELSE _jobs[j].created_at < now - JOB_CLEANUP_HOURS]_vars

\* a finished job is still registered, hours later, while another job is
\* being downloaded
C12_Witness ==
    \E j, k \in DOMAIN _jobs :
        /\ _jobs[j].state \in {"done", "error"}
        /\ _jobs[j].created_at < now - JOB_CLEANUP_HOURS
        /\ _jobs[k].state = "downloading"
        /\ _jobs[k].progress.current > 0


\* C13: a status view that has been returned holds, in every field, what
\* the job's record held at the one instant _get_job was called, whatever
\* the worker has written since.
C13_StatusSnapshot ==
    (call.fn = "mjr_models_download_status" /\ result.returned /\ result.view.ok)
        => \A key \in {"state", "progress", "message", "summary"} :
              result.view[key] = call.at[key]

\* a view was returned that differs from what the record holds by now
C13_Witness ==
    /\ call.fn = "mjr_models_download_status" /\ result.returned /\ result.view.ok
    /\ call.job_id \in DOMAIN _jobs
    /\ result.view.state = "downloading"
    /\ _jobs[call.job_id].state = "done"


Expired(job, t) == job.created_at < t - JOB_CLEANUP_HOURS

\* C14: a job leaves the registry only in a step that accepts a submission
\* (a new job id is issued); that step removes exactly the jobs whose
\* created_at is older than the retention window, so none of those is left
\* and none younger is gone.
C14_LazyPurge ==
    [][/\ (\E j \in DOMAIN _jobs : j \notin DOMAIN _jobs')
            => (issued' = issued + 1 /\ response'.ok)
       /\ issued' = issued + 1
            => /\ \A j \in DOMAIN _jobs : j \in DOMAIN _jobs' <=> ~Expired(_jobs[j], now)
               /\ \A j \in DOMAIN _jobs' : ~Expired(_jobs'[j], now')]_vars

\* the second submission was accepted and purged the first job
C14_Witness ==
    /\ issued = 2
    /\ response = [ok |-> TRUE, job_id |-> "j2"]
    /\ DOMAIN _jobs = {"j2"}


\* the file is absent, is not JSON, is not an object, or is an object whose
\* schema is not the number 1
StoredUnusable(stored) ==
    \/ stored.t \in {"missing", "malformed"}
    \/ stored.t # "dict"
    \/ ~(JGet(stored, "schema").t \in {"int", "float"} /\ JGet(stored, "schema").n = 1)

\* C17: loading a file that is missing, malformed, not an object or of
\* another schema yields the empty default: the current schema, an empty
\* updated_at and no items.
C17_LoadResetsToEmpty ==
    (result.returned /\ StoredUnusable(call.stored))
        => result.value = [schema |-> 1, updated_at |-> "", items |-> <<>>]


---------------------------------------------------------------------------
(* The project index, PROJECTS/_INDEX/projects.json, and its updates.      *)

IndexPath == "PROJECTS/_INDEX/projects.json"

\* load_index(): a strict read with {} for a file that does not exist
load_index(stored) == read_json_strict(stored, JDict({}))

\* update_index_atomic(project_id, updater_fn) under _index_lock: the index
\* is loaded, updated and saved; a load that raises ends the call before
\* anything is written.  written is the text save_index leaves in the file.
update_index_atomic(stored, project_id, updated) ==
    IF load_index(stored).raised # ""
    THEN [raised |-> load_index(stored).raised, written |-> stored, entry |-> JNull]
    ELSE [raised |-> "", written |-> updated,
          entry |-> IF project_id \in DOMAIN updated.d THEN updated.d[project_id]
                    ELSE JDict({})]

\* datetime.now().isoformat()
NowIso == "T" \o ToString(now)

\* the updater of /mjr_project/set
SetUpdater(index, pid, project_folder) ==
    IF pid \notin DOMAIN index.d
    THEN DictSet(index, pid, JDict({<<"folder", JStr(project_folder)>>,
                                    <<"created_at", JStr(NowIso)>>,
                                    <<"last_used", JStr(NowIso)>>}))
    ELSE DictSet(index, pid, DictSet(DictSet(index.d[pid], "folder", JStr(project_folder)),
                                     "last_used", JStr(NowIso)))

\* the updater of archive_project
ArchiveUpdater(index, pid) ==
    IF pid \in DOMAIN index.d
    THEN DictSet(index, pid, DictSet(DictSet(index.d[pid], "archived", JBool(TRUE)),
                                     "archived_at", JStr(NowIso)))
    ELSE index

\* the updater of unarchive_project
UnarchiveUpdater(index, pid) ==
    IF pid \in DOMAIN index.d
    THEN DictSet(index, pid, DictPop(DictSet(index.d[pid], "archived", JBool(FALSE)),
                                     "archived_at"))
    ELSE index

\* the updater of delete_project_from_index
DeleteUpdater(index, pid) ==
    IF pid \in DOMAIN index.d THEN DictPop(index, pid) ELSE index

ProjectIds == {"p1", "p2"}

ProjectFolders == {"P1", "P2"}

\* one update of the index file: the call and what it did are recorded
IndexUpdate(fn, pid, outcome) ==
    /\ call' = [fn |-> fn, project_id |-> pid]
    /\ result' = [returned |-> TRUE, raised |-> outcome.raised, entry |-> outcome.entry]
    /\ json_files' = IF outcome.raised # "" THEN json_files
                     ELSE (IndexPath :> outcome.written) @@ json_files
    /\ UNCHANGED <<library, _fingerprint_cache_lock, builder>>
    /\ DownloaderUnchanged

\* the index as the updater receives it; {} where the load raised and no
\* updater runs
Loaded(stored) ==
    IF load_index(stored).raised # "" THEN JDict({}) ELSE load_index(stored).value

SetProject(pid, project_folder) ==
    IndexUpdate("set", pid,
                update_index_atomic(Stored(IndexPath), pid,
                    SetUpdater(Loaded(Stored(IndexPath)), pid, project_folder)))

ArchiveProject(pid) ==
    IndexUpdate("archive_project", pid,
                update_index_atomic(Stored(IndexPath), pid,
                    ArchiveUpdater(Loaded(Stored(IndexPath)), pid)))

UnarchiveProject(pid) ==
    IndexUpdate("unarchive_project", pid,
                update_index_atomic(Stored(IndexPath), pid,
                    UnarchiveUpdater(Loaded(Stored(IndexPath)), pid)))

DeleteProject(pid) ==
    IndexUpdate("delete_project_from_index", pid,
                update_index_atomic(Stored(IndexPath), pid,
                    DeleteUpdater(Loaded(Stored(IndexPath)), pid)))

\* load_index() called by a route that only reads
LoadIndex ==
    /\ call' = [fn |-> "load_index", project_id |-> ""]
    /\ result' = [returned |-> TRUE, raised |-> load_index(Stored(IndexPath)).raised,
                  entry |-> load_index(Stored(IndexPath)).value]
    /\ UNCHANGED <<json_files, library, _fingerprint_cache_lock, builder>>
    /\ DownloaderUnchanged

\* an index of more than MAX_JSON_SIZE bytes
OversizedIndex ==
    JDict({<<"p1", JDict({<<"folder", JLong("P1", MAX_JSON_SIZE)>>})>>})

\* the ways an index file is corrupt
CorruptIndexes == {Malformed("{"), Unreadable, OversizedIndex}

IndexCorrupt(stored) ==
    \/ stored.t \in {"malformed", "unreadable"}
    \/ stored.t # "missing" /\ JsonSize(stored) > MAX_JSON_SIZE

\* the index file is damaged from outside: a crash in the middle of an
\* edit by hand, a disk error, a changed permission
Damage(stored) ==
    /\ ~IndexCorrupt(Stored(IndexPath))
    /\ json_files' = (IndexPath :> stored) @@ json_files
    /\ UNCHANGED <<library, _fingerprint_cache_lock, builder, call, result>>
    /\ DownloaderUnchanged

InitIndex ==
    /\ DownloaderIdle
    /\ library = ModelLibrary
    /\ _fingerprint_cache_lock = ""
    /\ builder = [b \in {} |-> 0]
    /\ json_files = [f \in {} |-> 0]
    /\ call = [fn |-> "none", project_id |-> ""]
    /\ result = [returned |-> FALSE]

NextIndex ==
    \/ \E pid \in ProjectIds, project_folder \in ProjectFolders :
          SetProject(pid, project_folder)
    \/ \E pid \in ProjectIds : ArchiveProject(pid)
    \/ \E pid \in ProjectIds : UnarchiveProject(pid)
    \/ \E pid \in ProjectIds : DeleteProject(pid)
    \/ LoadIndex
    \/ \E stored \in CorruptIndexes : Damage(stored)

SpecIndex == InitIndex /\ [][NextIndex]_vars

----------------------------------------------------------------------------
(* The two scorers: _candidate_score of model_fixer_routes.py for files on *)
(* disk and calculate_match_score of model_search_api.py for search        *)
(* results.  Scores are computed in exact arithmetic.                      *)

\* _EXT_RE, and the same pattern in normalize
ModelExtensions == {"safetensors", "ckpt", "pt", "pth", "bin"}

\* _EXT_RE.sub("", s): a model extension at the end is removed
StripExt(s) ==
    IF \E e \in ModelExtensions : EndsWith(s, "." \o e)
    THEN LET e == CHOOSE e \in ModelExtensions : EndsWith(s, "." \o e)
         IN SubSeq(s, 1, Len(s) - Len(e) - 1)
    ELSE s

Openers == {"[", "(", "{"}
Closers == {"]", ")", "}"}

\* _BRACKETS_RE.sub(" ", s): from an opening bracket to the nearest closing
\* one, all becomes one space
RECURSIVE RemoveBrackets(_)
RemoveBrackets(s) ==
    IF s = "" THEN ""
    ELSE IF Head(s) \in Openers /\ \E j \in 2..Len(s) : Char(s, j) \in Closers
         THEN " " \o RemoveBrackets(SubSeq(s, FirstOf(s, 2, Closers) + 1, Len(s)))
         ELSE Head(s) \o RemoveBrackets(Tail(s))

WordChars == CharSet(LowerLetters \o Digits)

\* the two substitutions that turn separators and every other character
\* that is not a lower-case letter, a digit or a space into a space
RECURSIVE Spaced(_)
Spaced(s) ==
    IF s = "" THEN ""
    ELSE (IF Head(s) \in WordChars THEN Head(s) ELSE " ") \o Spaced(Tail(s))

\* re.sub(r"\s+", " ", s): a run of spaces becomes one space
RECURSIVE Squeeze(_)
Squeeze(s) ==
    IF Len(s) < 2 THEN s
    ELSE IF Head(s) = " " /\ Char(s, 2) = " " THEN Squeeze(Tail(s))
    ELSE Head(s) \o Squeeze(Tail(s))

_normalize_for_match(value) ==
    Strip(Squeeze(Spaced(RemoveBrackets(StripExt(Lower(basename(value)))))))

\* normalize(text) inside calculate_match_score: no basename, and brackets
\* are treated like any other special character
normalize(text) == Strip(Squeeze(Spaced(StripExt(text))))

\* s.split() of a normalized string, as a set
RECURSIVE Words(_)
Words(s) ==
    IF s = "" THEN {}
    ELSE LET i == FirstOf(s, 1, {" "})
         IN (IF i > 1 THEN {SubSeq(s, 1, i - 1)} ELSE {})
            \cup Words(SubSeq(s, i + 1, Len(s)))

_STOPWORDS ==
    {"model", "checkpoint", "ckpt", "lora", "vae", "clip", "unet", "diffusion",
     "stable", "sd", "comfyui"}

Tokens(norm) == {w \in Words(norm) : w \notin _STOPWORDS /\ Len(w) > 1}

\* the lengths of the blocks the two strings have in common
CommonLengths(a, b) ==
    {k \in 1..Len(a) : \E i \in 1..(Len(a) - k + 1), j \in 1..(Len(b) - k + 1) :
        SubSeq(a, i, i + k - 1) = SubSeq(b, j, j + k - 1)}

\* SequenceMatcher.get_matching_blocks: the longest common block, the
\* earliest in a and then in b, then the same to its left and to its right;
\* the number of matched characters
RECURSIVE Matching(_, _)
Matching(a, b) ==
    IF CommonLengths(a, b) = {} THEN 0
    ELSE LET k == CHOOSE k \in CommonLengths(a, b) : \A m \in CommonLengths(a, b) : m <= k
             starts == {p \in (1..(Len(a) - k + 1)) \X (1..(Len(b) - k + 1)) :
                          SubSeq(a, p[1], p[1] + k - 1) = SubSeq(b, p[2], p[2] + k - 1)}
             p == CHOOSE p \in starts :
                     \A q \in starts : p[1] < q[1] \/ (p[1] = q[1] /\ p[2] <= q[2])
         IN k + Matching(SubSeq(a, 1, p[1] - 1), SubSeq(b, 1, p[2] - 1))
              + Matching(SubSeq(a, p[1] + k, Len(a)), SubSeq(b, p[2] + k, Len(b)))

Smaller(a, b) == IF a <= b THEN a ELSE b
Larger(a, b) == IF a >= b THEN a ELSE b

\* the scorer with the length test put first
_candidate_score_short_first(base, candidate) ==
    IF Len(_normalize_for_match(base)) < 4 THEN [score |-> 0, reason |-> "query_too_short"]
    ELSE [score |-> 100, reason |-> "exact_basename"]

\* the scorer with the comparison of the normalized names put first
_candidate_score_normalized_first(base, candidate) ==
    IF _normalize_for_match(base) = _normalize_for_match(candidate)
    THEN [score |-> 100, reason |-> "exact_normalized"]
    ELSE [score |-> 0, reason |-> "query_too_short"]

\* the last part of _candidate_score: Jaccard 60, fuzzy 30, substring 10
HybridScore(base_norm, cand_norm, base_tokens, cand_tokens) ==
    LET intersection == Cardinality(base_tokens \cap cand_tokens)
        union == Cardinality(base_tokens \cup cand_tokens)
        matched == 2 * Matching(base_norm, cand_norm)
        total == Len(base_norm) + Len(cand_norm)
        substring_bonus ==
            IF Len(base_norm) > 5
               /\ (Contains(cand_norm, base_norm) \/ Contains(base_norm, cand_norm))
            THEN 10 ELSE 0
    IN Smaller((60 * intersection * total + 30 * matched * union
                   + substring_bonus * union * total) \div (union * total), 95)

\* _candidate_score(base, candidate): score and reason; the reason of the
\* last case is written without its two figures
_candidate_score(base, candidate) ==
    IF base # "" /\ candidate # "" /\ base = candidate
    THEN [score |-> 100, reason |-> "exact_basename"]
    ELSE IF Len(_normalize_for_match(base)) < 4
    THEN [score |-> 0, reason |-> "query_too_short"]
    ELSE IF _normalize_for_match(base) = _normalize_for_match(candidate)
    THEN [score |-> 100, reason |-> "exact_normalized"]
    ELSE IF Tokens(_normalize_for_match(base)) = {}
            \/ Tokens(_normalize_for_match(candidate)) = {}
    THEN [score |-> (160 * Matching(_normalize_for_match(base),
                                    _normalize_for_match(candidate)))
                       \div (Len(_normalize_for_match(base))
                                + Len(_normalize_for_match(candidate))),
          reason |-> "fuzzy_fallback"]
    ELSE IF Tokens(_normalize_for_match(base)) \subseteq Tokens(_normalize_for_match(candidate))
    THEN [score |-> Larger(80, 98 - 3 * Cardinality(Tokens(_normalize_for_match(candidate))
                                                      \ Tokens(_normalize_for_match(base)))),
          reason |-> "token_subset"]
    ELSE [score |-> HybridScore(_normalize_for_match(base), _normalize_for_match(candidate),
                                Tokens(_normalize_for_match(base)),
                                Tokens(_normalize_for_match(candidate))),
          reason |-> "hybrid"]

\* the two loops over the words: 10 for a query word of 4 letters or more
\* inside a candidate word, else 8 for a candidate word of 4 letters or
\* more inside the query word
PartialScore(query_words, all_words) ==
    10 * Cardinality({p \in query_words \X all_words :
                         Len(p[1]) >= 4 /\ Contains(p[2], p[1])})
    + 8 * Cardinality({p \in query_words \X all_words :
                         /\ ~(Len(p[1]) >= 4 /\ Contains(p[2], p[1]))
                         /\ Len(p[2]) >= 4 /\ Contains(p[1], p[2])})

\* the word-by-word part of calculate_match_score
WordScore(query_words, all_words) ==
    IF query_words # {} /\ query_words \subseteq all_words
    THEN IF Cardinality(all_words \ query_words) <= 2
         THEN [score |-> 96 - 3 * Cardinality(all_words \ query_words),
               level |-> "Near-exact word match"]
         ELSE [score |-> 88, level |-> "All query words match"]
    ELSE IF all_words # {} /\ all_words \subseteq query_words
    THEN IF Cardinality(query_words \ all_words) <= 2
         THEN [score |-> 94 - 3 * Cardinality(query_words \ all_words),
               level |-> "Candidate is subset of query"]
         ELSE [score |-> 85, level |-> "Subset word match"]
    ELSE IF 10 * Cardinality(query_words \cap all_words)
               >= 7 * Cardinality(query_words \cup all_words)
    THEN [score |-> 80, level |-> "High word similarity"]
    ELSE IF 10 * Cardinality(query_words \cap all_words)
               >= 5 * Cardinality(query_words \cup all_words)
    THEN [score |-> 70, level |-> "Good word similarity"]
    ELSE IF 10 * Cardinality(query_words \cap all_words)
               > 3 * Cardinality(query_words \cup all_words)
    THEN [score |-> 60, level |-> "Some words match"]
    ELSE IF PartialScore(query_words, all_words) > 0
    THEN [score |-> Smaller(50, 30 + PartialScore(query_words, all_words)),
          level |-> "Partial match"]
    ELSE [score |-> 10, level |-> "Poor match"]

\* the part of calculate_match_score on the three normalized names
NormScore(query_norm, candidate_norm, filename_norm) ==
    IF query_norm = candidate_norm \/ query_norm = filename_norm
    THEN [score |-> 100, level |-> "Exact match"]
    ELSE IF Contains(candidate_norm, query_norm) \/ Contains(filename_norm, query_norm)
    THEN LET target == IF Contains(candidate_norm, query_norm) THEN candidate_norm
                       ELSE filename_norm
         IN IF 10 * Len(query_norm) > 7 * Larger(Len(target), 1)
            THEN [score |-> 95, level |-> "Near exact match"]
            ELSE IF 10 * Len(query_norm) > 4 * Larger(Len(target), 1)
            THEN [score |-> 90, level |-> "Contains query"]
            ELSE [score |-> 70, level |-> "Contains query (partial)"]
    ELSE IF Contains(query_norm, candidate_norm) \/ Contains(query_norm, filename_norm)
    THEN LET target == IF Contains(query_norm, candidate_norm) THEN candidate_norm
                       ELSE filename_norm
         IN IF 10 * Len(target) > 5 * Larger(Len(query_norm), 1)
            THEN [score |-> 60, level |-> "Subset match"]
            ELSE [score |-> 20, level |-> "Weak match"]
    ELSE WordScore(Words(query_norm), Words(candidate_norm) \cup Words(filename_norm))

\* calculate_match_score(query, candidate, filename)
calculate_match_score(query, candidate, filename) ==
    IF query = "" \/ candidate = "" THEN [score |-> 0, level |-> "No match"]
    ELSE NormScore(normalize(Strip(Lower(query))), normalize(Strip(Lower(candidate))),
                   normalize(Strip(Lower(filename))))

\* the names the scorers are called on
ScoredNames ==
    {"", " ", "x", "ab.pt", "AB", "[v1]", "sd_vae.ckpt", "Wan-2.1",
     "wan 2.1 lora", "dir/wan_2.1.safetensors", "wan rapid (fp8)"}

ScoreCalls ==
    [fn : {"_candidate_score"}, base : ScoredNames, candidate : ScoredNames,
     filename : {""}]
    \cup [fn : {"calculate_match_score"}, base : ScoredNames, candidate : ScoredNames,
          filename : {"", "wan.pt"}]

InitScore ==
    /\ DownloaderIdle
    /\ FixerIdle
    /\ call \in ScoreCalls
    /\ result = [returned |-> FALSE]

CandidateScore ==
    /\ call.fn = "_candidate_score"
    /\ ~result.returned
    /\ result' = [returned |-> TRUE,
                  score |-> _candidate_score(call.base, call.candidate).score,
                  why |-> _candidate_score(call.base, call.candidate).reason]
    /\ UNCHANGED <<call, fixer>>
    /\ DownloaderUnchanged

MatchScore ==
    /\ call.fn = "calculate_match_score"
    /\ ~result.returned
    /\ result' = [returned |-> TRUE,
                  score |-> calculate_match_score(call.base, call.candidate,
                                                  call.filename).score,
                  why |-> calculate_match_score(call.base, call.candidate,
                                                call.filename).level]
    /\ UNCHANGED <<call, fixer>>
    /\ DownloaderUnchanged

NextScore == CandidateScore \/ MatchScore

SpecScore == InitScore /\ [][NextScore]_vars

----------------------------------------------------------------------------
(* search_all_platforms of model_search_api.py: how the results of the    *)
(* web search and of the three platform searches are put together.  What   *)
(* the remote services answer is an input: a result is its platform, its   *)
(* url and its match_score.                                                *)

SearchResult(platform, url, match_score) ==
    [platform |-> platform, url |-> url, match_score |-> match_score]

\* sorted(results, key=match_score, reverse=True): stable, so results of
\* equal score keep their order
RECURSIVE SortedByScore(_)
SortedByScore(results) ==
    IF results = <<>> THEN <<>>
    ELSE LET rest == SortedByScore(SubSeq(results, 1, Len(results) - 1))
             r == results[Len(results)]
             k == Cardinality({i \in 1..Len(rest) : rest[i].match_score >= r.match_score})
         IN SubSeq(rest, 1, k) \o <<r>> \o SubSeq(rest, k + 1, Len(rest))

\* the loop of deduplicate_and_filter over the sorted results
RECURSIVE UniqueByUrl(_, _, _)
UniqueByUrl(sorted, seen_urls, min_score) ==
    IF sorted = <<>> THEN <<>>
    ELSE IF Head(sorted).match_score < min_score
         THEN UniqueByUrl(Tail(sorted), seen_urls, min_score)
    ELSE IF Head(sorted).url # "" /\ Head(sorted).url \notin seen_urls
         THEN <<Head(sorted)>>
              \o UniqueByUrl(Tail(sorted), seen_urls \cup {Head(sorted).url}, min_score)
    ELSE UniqueByUrl(Tail(sorted), seen_urls, min_score)

\* unique[:max_results]
Leading(unique, max_results) == SubSeq(unique, 1, Smaller(max_results, Len(unique)))

deduplicate_and_filter(results_list, max_results, min_score) ==
    Leading(UniqueByUrl(SortedByScore(results_list), {}, min_score), max_results)

\* the results of a list that are of a platform
OfPlatform(results, platform) == SelectSeq(results, LAMBDA r : r.platform = platform)

\* how many results of a list score at least so much
CountGood(results, least) ==
    Cardinality({i \in 1..Len(results) : results[i].match_score >= least})

\* step 1: the web search, one query variant after the other, until one of
\* them finds a result of 95 or more; by[p] gathers the results of platform p
RECURSIVE WebFirst(_, _)
WebFirst(web, by) ==
    IF web = <<>> THEN by
    ELSE IF CountGood(Head(web), 95) > 0
         THEN [by EXCEPT !.huggingface = @ \o OfPlatform(Head(web), "huggingface"),
                         !.github = @ \o OfPlatform(Head(web), "github")]
    ELSE WebFirst(Tail(web),
                  [by EXCEPT !.huggingface = @ \o OfPlatform(Head(web), "huggingface"),
                             !.github = @ \o OfPlatform(Head(web), "github")])

\* the results of an API search that score 80 or more, with the bonus of
\* the platform, capped at 100
RECURSIVE WithBonus(_, _)
WithBonus(results, bonus) ==
    IF results = <<>> THEN <<>>
    ELSE IF Head(results).match_score < 80 THEN WithBonus(Tail(results), bonus)
    ELSE <<[Head(results) EXCEPT !.match_score = Smaller(100, @ + bonus)]>>
         \o WithBonus(Tail(results), bonus)

\* step 2: the API searches, one query variant after the other, until
\* Hugging Face and GitHub together have 5 results of 80 or more
RECURSIVE ApiSearch(_, _)
ApiSearch(api, by) ==
    IF api = <<>> THEN by
    ELSE IF CountGood(by.huggingface \o WithBonus(Head(api).huggingface, 5)
                         \o by.github \o WithBonus(Head(api).github, 3), 80) >= 5
         THEN [huggingface |-> by.huggingface \o WithBonus(Head(api).huggingface, 5),
               github |-> by.github \o WithBonus(Head(api).github, 3),
               civitai |-> by.civitai \o WithBonus(Head(api).civitai, 0)]
    ELSE ApiSearch(Tail(api),
                   [huggingface |-> by.huggingface \o WithBonus(Head(api).huggingface, 5),
                    github |-> by.github \o WithBonus(Head(api).github, 3),
                    civitai |-> by.civitai \o WithBonus(Head(api).civitai, 0)])

\* all_results_by_platform after the two steps: the API searches run only
\* when the web search found fewer than 3 results of 80 or more
Gathered(web, api) ==
    IF CountGood(WebFirst(web, [huggingface |-> <<>>, github |-> <<>>,
                                civitai |-> <<>>]).huggingface
                 \o WebFirst(web, [huggingface |-> <<>>, github |-> <<>>,
                                   civitai |-> <<>>]).github, 80) < 3
    THEN ApiSearch(api, WebFirst(web, [huggingface |-> <<>>, github |-> <<>>,
                                       civitai |-> <<>>]))
    ELSE WebFirst(web, [huggingface |-> <<>>, github |-> <<>>, civitai |-> <<>>])

\* the end of search_all_platforms on the gathered results
Assembled(by, limit_per_platform) ==
    [platforms |->
        [huggingface |-> deduplicate_and_filter(by.huggingface, limit_per_platform * 2, 80),
         github |-> deduplicate_and_filter(by.github, limit_per_platform * 2, 80),
         civitai |-> deduplicate_and_filter(by.civitai, limit_per_platform, 80)],
     sorted_results |->
        SortedByScore(deduplicate_and_filter(by.huggingface, limit_per_platform * 2, 80)
                      \o deduplicate_and_filter(by.github, limit_per_platform * 2, 80)
                      \o deduplicate_and_filter(by.civitai, limit_per_platform, 80)),
     total_results |->
        Len(deduplicate_and_filter(by.huggingface, limit_per_platform * 2, 80))
        + Len(deduplicate_and_filter(by.github, limit_per_platform * 2, 80))
        + Len(deduplicate_and_filter(by.civitai, limit_per_platform, 80))]

search_all_platforms(web, api, limit_per_platform) ==
    Assembled(Gathered(web, api), limit_per_platform)

LimitPerPlatform == 1   \* limit_per_platform of the searches

HfUrl(name) == "https://huggingface.co/o/" \o name \o "/resolve/main/m.safetensors"

\* a download URL that a GitHub release and a CivitAI model both name
MirrorUrl == "https://cdn.example.org/m.safetensors"

\* what search_web_first may return for a query variant: results of 80 or
\* more from Hugging Face and GitHub
WebAnswers ==
    { <<>>,
      <<SearchResult("huggingface", HfUrl("a"), 85)>>,
      <<SearchResult("huggingface", HfUrl("a"), 96),
        SearchResult("github", "https://github.com/o/a/releases/download/v1/m.pt", 85)>>,
      <<SearchResult("huggingface", HfUrl("b"), 85),
        SearchResult("github", MirrorUrl, 90)>> }

\* what the three API searches may return for a query variant: at most
\* their limit of results, of 30 or more, best first
HuggingFaceAnswers ==
    { <<>>,
      <<SearchResult("huggingface", HfUrl("a"), 97),
        SearchResult("huggingface", HfUrl("d"), 60)>>,
      <<SearchResult("huggingface", HfUrl("b"), 96),
        SearchResult("huggingface", HfUrl("c"), 82)>> }

GitHubAnswers ==
    { <<>>,
      <<SearchResult("github", "https://github.com/o/a/releases/download/v1/m.pt", 98),
        SearchResult("github", "", 90)>> }

CivitaiAnswers ==
    { <<>>,
      <<SearchResult("civitai", MirrorUrl, 85)>>,
      <<SearchResult("civitai", "https://civitai.com/api/download/models/1", 100)>> }

ApiAnswers ==
    [huggingface : HuggingFaceAnswers, github : GitHubAnswers, civitai : CivitaiAnswers]

InitSearch ==
    /\ DownloaderIdle
    /\ FixerIdle
    /\ call \in [fn : {"search_all_platforms"},
                 web : WebAnswers \X WebAnswers, api : ApiAnswers \X ApiAnswers]
    /\ result = [returned |-> FALSE]

SearchAllPlatforms ==
    /\ call.fn = "search_all_platforms"
    /\ ~result.returned
    /\ result' = [returned |-> TRUE,
                  results |-> search_all_platforms(call.web, call.api, LimitPerPlatform)]
    /\ UNCHANGED <<call, fixer>>
    /\ DownloaderUnchanged

NextSearch == SearchAllPlatforms

SpecSearch == InitSearch /\ [][NextSearch]_vars

----------------------------------------------------------------------------
(* Claims about the fingerprint cache and the recipe store.                *)

\* C15: at most one build is between taking the lock and leaving it, and
\* while a build scans, the cache file is still the one it loaded: nobody
\* wrote in between, so each build starts from what the build before it
\* wrote.
C15_OneBuildAtATime ==
    /\ Cardinality({b \in DOMAIN builder :
                       builder[b].pc \in {"load", "scan", "replace", "release"}}) <= 1
    /\ \A b \in DOMAIN builder :
          builder[b].pc \in {"load", "scan", "replace", "release"}
             => _fingerprint_cache_lock = b
    /\ \A b \in DOMAIN builder :
          builder[b].pc \in {"scan", "replace"} => builder[b].loaded = Stored(CachePath)

\* a build waits for the lock while another one is in the middle of its scan
C15_Witness ==
    \E b, c \in DOMAIN builder :
        /\ builder[b].pc = "scan" /\ builder[b].items # <<>> /\ builder[b].todo # <<>>
        /\ builder[c].pc = "acquire"
        /\ Stored(CachePath) # Missing

CountHow(how, what) == Cardinality({i \in 1..Len(how) : how[i] = what})

\* the previous cache has a record for the item's kind and relpath with the
\* item's size and mtime and a fingerprint that is not empty
PreviouslyRecorded(existing, item) ==
    LET key == <<JGet(item, "kind").s, JGet(item, "relpath").s>>
    IN /\ key \in DOMAIN existing
       /\ JGet(existing[key], "size").t \in {"int", "float"}
       /\ JGet(existing[key], "size").n = JGet(item, "size").n
       /\ JGet(existing[key], "mtime").t \in {"int", "float"}
       /\ JGet(existing[key], "mtime").n = JGet(item, "mtime").n
       /\ JGet(existing[key], "fingerprint").t = "str"
       /\ JGet(existing[key], "fingerprint").s # ""

\* C16: a build reuses a record's fingerprint exactly when force is false
\* and the previous cache has the record with equal size and mtime and a
\* non-empty fingerprint; hashed and reused count the two kinds of record;
\* so a build with force=false over files all recorded unchanged reports
\* hashed = 0 and reused = count, and a build with force=true reports
\* hashed = count and reused = 0.
C16_FingerprintReuse ==
    \A b \in DOMAIN builder :
        "how" \in DOMAIN builder[b] =>
            LET w == builder[b]
            IN /\ Len(w.how) = Len(w.items)
               /\ \A i \in 1..Len(w.items) :
                     /\ w.how[i] = "reused"
                           <=> (~w.force /\ PreviouslyRecorded(w.existing, w.items[i]))
                     /\ w.how[i] = "reused" =>
                           JGet(w.items[i], "fingerprint") =
                              JGet(w.existing[<<JGet(w.items[i], "kind").s,
                                                 JGet(w.items[i], "relpath").s>>],
                                   "fingerprint")
               /\ w.hashed = CountHow(w.how, "hashed")
               /\ w.reused = CountHow(w.how, "reused")
               /\ w.pc = "done" =>
                     /\ w.returned.count = Len(w.items)
                     /\ w.returned.hashed = w.hashed /\ w.returned.reused = w.reused
                     /\ w.force => (w.returned.hashed = w.returned.count
                                    /\ w.returned.reused = 0)
                     /\ (~w.force /\ \A i \in 1..Len(w.items) :
                                        PreviouslyRecorded(w.existing, w.items[i]))
                           => (w.returned.hashed = 0
                               /\ w.returned.reused = w.returned.count)

\* the second of two builds over the same kinds, not forced, with no file
\* changed, has reused everything
C16_Witness ==
    \E b, c \in DOMAIN builder :
        /\ b # c
        /\ builder[b].pc = "done" /\ builder[c].pc = "done"
        /\ builder[b].kinds = builder[c].kinds
        /\ library = ModelLibrary
        /\ ~builder[c].force
        /\ builder[c].loaded = Stored(CachePath)
        /\ builder[c].returned.count = 3
        /\ builder[c].returned.hashed = 0
        /\ builder[c].returned.reused = 3


RecipeFields == {"key", "kind", "url", "filename", "sha256"}

\* the keys of the items of one save
SavedKeys(items) == {JGet(items[i], "key").s : i \in 1..Len(items)}

\* the item most recently saved under key k, for k a key of some save
LastSaved(saves, k) ==
    LET s == CHOOSE s \in 1..Len(saves) :
                 /\ k \in SavedKeys(saves[s])
                 /\ \A later \in (s + 1)..Len(saves) : k \notin SavedKeys(saves[later])
        i == CHOOSE i \in 1..Len(saves[s]) :
                 /\ JGet(saves[s][i], "key").s = k
                 /\ \A j \in (i + 1)..Len(saves[s]) : JGet(saves[s][j], "key").s # k
    IN saves[s][i]

\* entry holds what was saved as item, field by field
SameRecipe(entry, item) ==
    /\ entry.t = "dict"
    /\ RecipeFields \subseteq DOMAIN entry.d
    /\ \A f \in RecipeFields : entry.d[f] = item.d[f]

\* the list the store file holds, as written
Persisted ==
    IF Stored(SourcesPath).t = "dict" /\ JGet(Stored(SourcesPath), "items").t = "list"
    THEN JGet(Stored(SourcesPath), "items").l ELSE <<>>

\* C18: after any sequence of saves the persisted list has one entry per
\* key, ascending by key, and for every key ever saved the entry of the
\* most recent save that contained it.
C18_MergedSortedStore ==
    /\ \A i, j \in 1..Len(Persisted) :
          i < j => StrLess(JGet(Persisted[i], "key").s, JGet(Persisted[j], "key").s)
    /\ \A s \in 1..Len(call.saves) : \A k \in SavedKeys(call.saves[s]) :
          \E i \in 1..Len(Persisted) :
              /\ JGet(Persisted[i], "key").s = k
              /\ SameRecipe(Persisted[i], LastSaved(call.saves, k))


\* the keys saved so far
EverSaved == UNION {SavedKeys(call.saves[s]) : s \in 1..Len(call.saves)}

\* C19: once a recipe has been saved under key k, resolving a missing value
\* with basename k returns that recipe, with the key, kind, url, filename
\* and sha256 saved; no persisted entry and no returned recipe has a token
\* field.
C19_SaveThenResolve ==
    /\ \A i \in 1..Len(Persisted) : "token" \notin DOMAIN Persisted[i].d
    /\ (call.fn = "resolve_recipes" /\ result.response.ok) =>
          \A i \in 1..Len(result.response.resolved) :
              LET entry == result.response.resolved[i]
                  k == JGet(entry, "key").s
              IN /\ JGet(entry, "recipe").t = "dict"
                       => "token" \notin DOMAIN JGet(entry, "recipe").d
                 /\ k \in EverSaved =>
                       /\ JGet(entry, "recipe") # JNull
                       /\ SameRecipe(JGet(entry, "recipe"), LastSaved(call.saves, k))

\* the part of a path after its last "/" or "\"
AfterLastSeparator(s) ==
    LET a == RFind(s, "/")
        b == RFind(s, "\\")
    IN SubSeq(s, (IF a > b THEN a ELSE b) + 1, Len(s))

\* the missing value and the type hint of a posted reference
PostedValue(ref) == IF ref.t = "dict" THEN StrOrEmpty(JGet(ref, "missing_value")) ELSE ""

PostedHint(ref) == IF ref.t = "dict" THEN Lower(StrOrEmpty(JGet(ref, "type_hint"))) ELSE ""

\* C20: a resolve request leaves the store as it is, and every entry whose
\* key was never saved and that got no search result comes back with
\* recipe = null, the basename of the missing value as key and the hint
\* table's category for its type_hint as kind, with or without auto_search.
C20_UnknownReference ==
    [][\A raw_missing \in ResolveRequests, auto_search \in BOOLEAN, found \in SearchResults :
          ResolveRecipes(raw_missing, auto_search, found) =>
             /\ json_files' = json_files
             /\ result'.response.ok
             /\ Len(result'.response.resolved) = Len(raw_missing)
             /\ \A i \in 1..Len(raw_missing) :
                   LET entry == result'.response.resolved[i]
                       hint == PostedHint(raw_missing[i])
                   IN (/\ AfterLastSeparator(PostedValue(raw_missing[i])) \notin EverSaved
                       /\ "auto_search_result" \notin DOMAIN entry.d)
                      => /\ JGet(entry, "recipe") = JNull
                         /\ JGet(entry, "key") = JStr(AfterLastSeparator(PostedValue(raw_missing[i])))
                         /\ JGet(entry, "kind") =
                               JStr(IF hint \in DOMAIN TYPE_HINT_KIND
                                    THEN TYPE_HINT_KIND[hint] ELSE "")
      ]_vars


---------------------------------------------------------------------------
(* Claims about duplicate keys, concurrent jobs and the recipe store.      *)

\* the positions of a batch that hold the first item of their key
FirstOfKey(raw_items) ==
    {i \in 1..Len(raw_items) :
        \A k \in 1..(i - 1) : basename(raw_items[k].key) # basename(raw_items[i].key)}

HasDuplicateKeys(raw_items) == FirstOfKey(raw_items) # 1..Len(raw_items)

\* the batch a worker's items came from
BatchOf(w) == CHOOSE raw_items \in Batches : Validated[raw_items].items = w.items

\* C30: a batch with several items of one key is accepted; its job holds
\* the first item of each key and no other, sends requests for these only,
\* and its summary counts one result per key.
C30_DuplicateKeys ==
    /\ [][\A raw_items \in Batches :
            (Download(raw_items) /\ HasDuplicateKeys(raw_items) /\ issued < MaxJobs) =>
                /\ response'.ok
                /\ issued' = issued + 1
                /\ LET items == worker'[response'.job_id].items
                   IN /\ Len(items) = Cardinality(FirstOfKey(raw_items))
                      /\ \A n \in 1..Len(items) :
                            \E i \in FirstOfKey(raw_items) :
                               /\ items[n].key = basename(raw_items[i].key)
                               /\ items[n].url = raw_items[i].url
                               /\ Cardinality({k \in FirstOfKey(raw_items) : k < i}) = n - 1
        ]_vars
    /\ [](\A j \in DOMAIN worker :
            LET w == worker[j]
            IN /\ \A r \in w.requests : r.index \in 1..Len(w.items)
               /\ Len(w.results) <= Len(w.items)
               /\ (w.pc = "rmtree" /\ j \in DOMAIN _jobs) =>
                     _jobs[j].summary.downloaded + _jobs[j].summary.skipped
                        + _jobs[j].summary.errors
                     = Cardinality(FirstOfKey(BatchOf(w))))

\* the job of a batch of two items with one key has finished
C30_Witness ==
    \E j \in DOMAIN worker :
        /\ worker[j].pc = "rmtree" /\ j \in DOMAIN _jobs
        /\ HasDuplicateKeys(BatchOf(worker[j]))
        /\ Len(BatchOf(worker[j])) = 2
        /\ Len(worker[j].results) = 1
        /\ _jobs[j].summary.downloaded = 1


\* C24: a file present at a final target path is never replaced: whatever
\* step is taken, by whichever job, every file outside the temp area stays
\* where it is with the content it has.
C24_NeverReplaced ==
    [][\A path \in DOMAIN files :
          ~InTempDir(path) => (path \in DOMAIN files' /\ files'[path] = files[path])
      ]_vars


\* C25: once a job has published its result, the recipe store holds a
\* recipe for the key of every item the job downloaded.
C25_DownloadUpdatesStore ==
    \A j \in DOMAIN worker :
        worker[j].pc = "rmtree" =>
            \A i \in 1..Len(worker[j].results) :
                worker[j].results[i].status = "ok" =>
                    \E n \in 1..Len(Persisted) :
                        JGet(Persisted[n], "key") = JStr(worker[j].results[i].key)


(* Claims about what a build leaves in the cache file and what readers see. *)

\* the builds that came to their end and returned statistics
Returned == {b \in DOMAIN builder : "returned" \in DOMAIN builder[b]}

\* the positions of the listing that a build left out
SkippedAt(w) == {w.skipped[i].at : i \in 1..Len(w.skipped)}

\* the files of the listing that a build could resolve, stat and fingerprint
Fingerprinted(w) ==
    {KindsFiles(w.kinds)[i] : i \in (1..Len(KindsFiles(w.kinds))) \ SkippedAt(w)}

\* the (kind, relpath) of the records of a build, in order
RecordKeys(w) ==
    [i \in 1..Len(w.items) |->
        <<JGet(w.items[i], "kind").s, JGet(w.items[i], "relpath").s>>]

\* C26: after a build over the kinds K the cache file holds exactly one
\* record for each listed file of a kind of K that could be resolved, stat-ed
\* and fingerprinted, and nothing else: the new list replaces the old one
C26_ExactlyOneRecordPerFile ==
    \A b \in Returned :
       LET w == builder[b]
       IN /\ w.pc = "release" =>
                Stored(CachePath) = BuildPayload(w, w.returned.updated_at)
          /\ {RecordKeys(w)[i] : i \in 1..Len(w.items)} = Fingerprinted(w)
          /\ \A i, j \in 1..Len(w.items) :
                RecordKeys(w)[i] = RecordKeys(w)[j] => i = j

\* the listing without the positions left out
RECURSIVE Kept(_, _, _)
Kept(listing, at, skipped) ==
    IF listing = <<>> THEN <<>>
    ELSE (IF at \in skipped THEN <<>> ELSE <<Head(listing)>>)
         \o Kept(Tail(listing), at + 1, skipped)

\* C27: a file whose stat or fingerprinting fails is left out of the new
\* cache and of count; the build goes on with the remaining files, writes
\* the cache and returns its statistics
C27_FailedFileSkipped ==
    \A b \in DOMAIN builder :
       LET w == builder[b]
       IN /\ "failed" \in DOMAIN w => w.failed = "AttributeError"
          /\ ("skipped" \in DOMAIN w /\ w.skipped # <<>>) =>
             /\ w.pc \in {"scan", "replace", "release", "done"}
             /\ Len(w.items) + Len(w.skipped) = w.total
             /\ RecordKeys(w) = Kept(KindsFiles(w.kinds), 1, SkippedAt(w))
                                   \o [i \in {} |-> 0]
                \/ w.todo # <<>>
             /\ w.pc \in {"release", "done"} =>
                   /\ b \in Returned
                   /\ w.returned.count = w.total - Len(w.skipped)
                   /\ w.returned.total = Len(KindsFiles(w.kinds))
             /\ w.pc = "release" =>
                   Stored(CachePath) = BuildPayload(w, w.returned.updated_at)

C27_Witness ==
    \E b \in Returned :
       /\ builder[b].pc = "done"
       /\ \E i, j \in 1..Len(builder[b].skipped) :
             builder[b].skipped[i].why = "stat" /\ builder[b].skipped[j].why = "hash"
       /\ builder[b].items # <<>>

\* the complete versions of the cache: the one found at the start and the
\* ones the builds wrote
CacheVersions ==
    {Missing, LeftCache}
    \cup {BuildPayload(builder[b], builder[b].returned.updated_at) : b \in Returned}

\* the relpath of the first record of a version with the kind and the
\* fingerprint
FirstRecord(version, kind, fingerprint) ==
    LET items == IF version = Missing THEN <<>> ELSE JGet(version, "items").l
        hits == {i \in 1..Len(items) :
                    /\ JGet(items[i], "kind").s = kind
                    /\ JGet(items[i], "fingerprint").s = fingerprint}
    IN IF hits = {} THEN JNull
       ELSE JGet(items[CHOOSE i \in hits : \A j \in hits : i <= j], "relpath")

\* C28: a lookup or a status read never waits for a running build (it is
\* answered whoever holds the lock) and sees one complete version of the
\* cache, the one from before the build or the one a build wrote, never a
\* partly written file; the lookup returns the relpath of the first record
\* with the kind and the fingerprint, or none
C28_LookupSeesCompleteVersion ==
    /\ (result.returned /\ call.fn = "mjr_models_resolve_by_fingerprint")
          => result.response.status = IF call.kind = "" THEN 400 ELSE 200
    /\ (result.returned /\ call.fn = "mjr_models_fingerprint_cache_status")
          => result.response.status = 200
    /\ \A kind \in LookupKinds \ {""}, fingerprint \in LookupFingerprints :
          /\ \E version \in CacheVersions :
                /\ mjr_models_resolve_by_fingerprint(Stored(CachePath), kind, fingerprint)
                      = [status |-> 200, ok |-> TRUE,
                         relpath |-> FirstRecord(version, Strip(kind), fingerprint)]
                /\ mjr_models_fingerprint_cache_status(Stored(CachePath)).count
                      = IF version = Missing THEN 0 ELSE Len(JGet(version, "items").l)
                /\ Stored(CachePath) = version

C28_Witness ==
    /\ call.fn = "mjr_models_resolve_by_fingerprint"
    /\ result.returned
    /\ \E b \in DOMAIN builder : builder[b].pc = "replace" /\ result.beside = b
    /\ \E b \in Returned : builder[b].pc = "done"
    /\ WriteTarget(CachePath, "t2") \in DOMAIN json_files
    /\ result.response.status = 200
    /\ result.response.relpath = JStr("v.pt")


(* Claims about the project index.                                         *)

IndexUpdates == {"set", "archive_project", "unarchive_project",
                 "delete_project_from_index"}

\* C29: when the index file is corrupt (malformed, oversized or unreadable)
\* loading it raises instead of returning an empty index, and every update
\* of the index fails without writing: the file is left exactly as it was
C29_CorruptIndexFailsLoudly ==
    [][IndexCorrupt(Stored(IndexPath)) =>
          /\ json_files' = json_files
          /\ result'.returned /\ result'.raised = "ValueError"
          /\ call'.fn \in IndexUpdates \cup {"load_index"}]_vars

C29_Witness ==
    /\ IndexCorrupt(Stored(IndexPath))
    /\ Stored(IndexPath) = OversizedIndex
    /\ call.fn = "delete_project_from_index"
    /\ result.returned /\ result.raised = "ValueError"


(* Claims about the scorers.                                               *)

\* C22: scoring a non-empty string against itself yields 100, in
\* _candidate_score and in calculate_match_score alike, whatever the length
\* or the content of the string
C22_SelfScoreIs100 ==
    (result.returned /\ call.base = call.candidate /\ call.base # "")
       => result.score = 100

C22_Witness ==
    /\ result.returned
    /\ call.fn = "_candidate_score"
    /\ call.base = "x" /\ call.candidate = "x"
    /\ result.score = 100

\* C23: in _candidate_score a target whose normalized form has fewer than 4
\* characters scores 0 against every candidate whose raw string differs
\* from the raw target
C23_ShortTargetScoresZero ==
    (/\ result.returned
     /\ call.fn = "_candidate_score"
     /\ Len(_normalize_for_match(call.base)) < 4
     /\ call.base # call.candidate)
       => result.score = 0

C23_Witness ==
    /\ result.returned
    /\ call.fn = "_candidate_score"
    /\ call.base = "ab.pt" /\ call.candidate = "AB"
    /\ _normalize_for_match(call.base) = _normalize_for_match(call.candidate)
    /\ result.score = 0


(* Claims about the search results.                                        *)

Descending(results) ==
    \A i, j \in 1..Len(results) :
       i < j => results[i].match_score >= results[j].match_score

\* the three platform lists of a result, one after the other
Listed(results) ==
    results.platforms.huggingface \o results.platforms.github \o results.platforms.civitai

\* every result gathered before the deduplication
AllGathered(web, api) ==
    Gathered(web, api).huggingface \o Gathered(web, api).github
       \o Gathered(web, api).civitai

Times(results, r) == Cardinality({i \in 1..Len(results) : results[i] = r})

\* C21: in every result of search_all_platforms every listed result scores
\* between 80 and 100; no two listed results, across all platforms and query
\* variants, share a url, and of duplicates the highest-scoring one is kept;
\* each platform list is within its cap and ordered by score descending;
\* sorted_results holds exactly the results of the three platform lists,
\* ordered by score descending; total_results is its length
C21_SearchResults ==
    result.returned =>
       LET results == result.results
           listed == Listed(result.results)
           gathered == AllGathered(call.web, call.api)
       IN /\ \A i \in 1..Len(listed) :
                listed[i].match_score >= 80 /\ listed[i].match_score <= 100
          /\ \A i, j \in 1..Len(listed) : listed[i].url = listed[j].url => i = j
          /\ \A i \in 1..Len(listed), k \in 1..Len(gathered) :
                gathered[k].url = listed[i].url
                   => gathered[k].match_score <= listed[i].match_score
          /\ Len(results.platforms.huggingface) <= 2 * LimitPerPlatform
          /\ Len(results.platforms.github) <= 2 * LimitPerPlatform
          /\ Len(results.platforms.civitai) <= LimitPerPlatform
          /\ Descending(results.platforms.huggingface)
          /\ Descending(results.platforms.github)
          /\ Descending(results.platforms.civitai)
          /\ Descending(results.sorted_results)
          /\ Len(results.sorted_results) = Len(listed)
          /\ \A i \in 1..Len(listed) :
                Times(results.sorted_results, listed[i]) = Times(listed, listed[i])
          /\ results.total_results = Len(results.sorted_results)


(* Claims about the token rule, normalized equality and build counters.    *)

\* the cases of C35: names that differ after normalization and have
\* meaningful tokens, the tokens of one all among the tokens of the other
TokenSubsetCase(base, candidate) ==
    /\ _normalize_for_match(base) # _normalize_for_match(candidate)
    /\ Tokens(_normalize_for_match(base)) # {}
    /\ Tokens(_normalize_for_match(candidate)) # {}
    /\ \/ Tokens(_normalize_for_match(base)) \subseteq Tokens(_normalize_for_match(candidate))
       \/ Tokens(_normalize_for_match(candidate)) \subseteq Tokens(_normalize_for_match(base))

\* the tokens of the larger set that the smaller one has not
ExtraTokens(base, candidate) ==
    (Tokens(_normalize_for_match(base)) \cup Tokens(_normalize_for_match(candidate)))
       \ (Tokens(_normalize_for_match(base)) \cap Tokens(_normalize_for_match(candidate)))

\* C35: in _candidate_score, for names that are not equal after
\* normalization and have meaningful tokens, when the tokens of the target
\* are a subset of the candidate's or the candidate's a subset of the
\* target's, the score is max(80, 98 - 3 * extra tokens of the larger set)
C35_TokenSubsetBand ==
    (/\ result.returned
     /\ call.fn = "_candidate_score"
     /\ TokenSubsetCase(call.base, call.candidate))
       => /\ result.score = Larger(80, 98 - 3 * Cardinality(ExtraTokens(call.base,
                                                                        call.candidate)))
          /\ result.score \in 80..98

\* C36: in _candidate_score names that are equal after normalization score
\* 100, whatever the length of the normalized target
C36_NormalizedEqualIs100 ==
    (/\ result.returned
     /\ call.fn = "_candidate_score"
     /\ _normalize_for_match(call.base) = _normalize_for_match(call.candidate))
       => result.score = 100

\* C39: every build result has count = hashed + reused and count <= total;
\* count is the number of records written to the cache and total - count
\* the number of listed files that were skipped
C39_BuildCounters ==
    \A b \in Returned :
       LET w == builder[b]
       IN /\ w.returned.count = w.returned.hashed + w.returned.reused
          /\ w.returned.count <= w.returned.total
          /\ w.returned.count = Len(JGet(BuildPayload(w, w.returned.updated_at), "items").l)
          /\ w.returned.total - w.returned.count = Len(w.skipped)
          /\ w.pc = "release" =>
                w.returned.count
                   = mjr_models_fingerprint_cache_status(Stored(CachePath)).count

C39_Witness ==
    \E b \in Returned :
       /\ builder[b].returned.hashed > 0
       /\ builder[b].returned.reused > 0
       /\ builder[b].returned.total > builder[b].returned.count

---------------------------------------------------------------------------
(* Claims about status views, temp directories and the retention purge.    *)

\* the status views the handler has finished building for an existing job
StatusView ==
    IF /\ call.fn = "mjr_models_download_status"
       /\ result.returned
       /\ result.view.ok
    THEN {result.view}
    ELSE {}

\* C33: every status view of a job, whatever the job's state, carries a
\* summary with the three counters downloaded, errors and skipped.
C33_SummaryHasThreeCounters ==
    \A view \in StatusView :
       DOMAIN view.summary = {"downloaded", "errors", "skipped"}

\* the jobs whose worker thread has ended (no process was killed)
Finished == {j \in {uuid4(n) : n \in 1..issued} : j \notin DOMAIN worker}

\* C32: once a job's worker has finished, the job's temp directory and
\* every file in it are gone, whether the job ended done or error.
C32_TempDirRemoved ==
    ~crashed =>
       \A j \in Finished :
          /\ _temp_dir(j) \notin dirs
          /\ \A path \in DOMAIN files : ~StartsWith(path, _temp_dir(j) \o "/")

\* one job has ended done after a download and another error after an item
\* failed (an item fails only after the temp directory is made)
C32_Witness ==
    \E j, k \in Finished :
       /\ j \in DOMAIN _jobs /\ k \in DOMAIN _jobs
       /\ _jobs[j].state = "done"
       /\ _jobs[j].summary.downloaded > 0
       /\ _jobs[k].state = "error"
       /\ _jobs[k].summary.errors > 0
       /\ _jobs[k].summary.skipped > 0

\* the jobs with an item streaming: the response is open and its chunks
\* are being read
Streaming == {j \in DOMAIN worker \cap DOMAIN _jobs : worker[j].pc = "read"}

\* C38: while an item streams, progress.current is the number of bytes
\* received so far for that item and is never over the ceiling,
\* progress.total is the advertised length or 0, and progress.pct is
\* floor(100 * current / total) when total > 0 and 0 otherwise.
C38_ProgressWhileStreaming ==
    \A j \in Streaming :
       LET w == worker[j]
           progress == _jobs[j].progress
       IN /\ progress.current = w.f.downloaded
          /\ progress.current <= _get_max_download_bytes
          /\ progress.total \in {Advertised(w.items[w.index]), 0}
          /\ progress.pct = IF progress.total > 0
                            THEN (100 * progress.current) \div progress.total
                            ELSE 0

\* the jobs removed from the registry whose worker thread still runs
PurgedRunning == DOMAIN worker \ DOMAIN _jobs

\* C37: a step that accepts a submission removes every job whose created_at
\* is older than the window, with or without a running worker; the registry
\* gains no entry but the job just accepted, so a removed job never comes
\* back and the steps of its worker leave the registry as it is; a status
\* request for it is answered not found; and its worker ends only after a
\* result for each of its items, removing its temp directory.
C37_PurgedWhileRunning ==
    [][/\ issued' = issued + 1
            => \A j \in DOMAIN _jobs :
                  Expired(_jobs[j], now) => j \notin DOMAIN _jobs'
       /\ \A j \in DOMAIN _jobs' \ DOMAIN _jobs :
             issued' = issued + 1 /\ j = uuid4(issued')
       /\ \A j \in PurgedRunning :
             (j \notin DOMAIN worker' \/ worker'[j] # worker[j]) => _jobs' = _jobs
       /\ (/\ call' # call
           /\ call'.fn = "mjr_models_download_status"
           /\ call'.job_id \notin DOMAIN _jobs)
             => /\ result'.returned
                /\ result'.view = [ok |-> FALSE, error |-> "job not found", status |-> 404]
       /\ \A j \in DOMAIN worker \ DOMAIN worker' :
             /\ Len(worker[j].results) = Len(worker[j].items)
             /\ _temp_dir(j) \notin dirs'
             /\ \A path \in DOMAIN files' : ~StartsWith(path, _temp_dir(j) \o "/")]_vars

\* the first job has been purged by the second submission while its worker
\* was about to publish an item, and its status has been asked since
C37_Witness ==
    /\ "j1" \in PurgedRunning
    /\ worker["j1"].pc = "tmp"
    /\ "j2" \in DOMAIN _jobs
    /\ call.fn = "mjr_models_download_status"
    /\ call.job_id = "j1"
    /\ result.returned
    /\ result.view.status = 404

\* C31: an accepted job runs to an end: its worker gets to the end of its
\* loop with a result for each item and the final state published, if the
\* job is still registered, and then ends; from then on the record, while
\* registered, says done or error.
C31_JobRunsToEnd ==
    \A j \in JobIds :
       /\ (j \in DOMAIN worker)
             ~> (/\ j \in DOMAIN worker
                 /\ worker[j].pc = "rmtree"
                 /\ Len(worker[j].results) = Len(worker[j].items)
                 /\ j \in DOMAIN _jobs => _jobs[j].state \in {"done", "error"})
       /\ (j \in DOMAIN worker)
             ~> [](/\ j \notin DOMAIN worker
                   /\ j \in DOMAIN _jobs => _jobs[j].state \in {"done", "error"})

\* a job has run to its end after it was purged, and a later one to its
\* end with an error
C31_Witness ==
    \E j, k \in Finished :
       /\ j \notin DOMAIN _jobs
       /\ k \in DOMAIN _jobs
       /\ _jobs[k].state = "error"

---------------------------------------------------------------------------
(* _validate_item called on its own.                                       *)

ValidatedKeys == {"", "a", "dir\\a.pt", "d/"}

ValidatedUrls ==
    {"https://h.io/a.pt", "HTTP://H.io/m/b.bin?x=1", "https://h.io/x.exe",
     "ftp://h.io/a.pt", "https:///a.pt", "http://:80/a.pt"}

ValidatedKinds == {"checkpoint", " Loras ", "nope", ""}

ValidatedFilenames ==
    {"", "a.pt", " b.PT ", "../a.pt", "a..pt", "c:a.pt", "d\\a.pt", "a.exe"}

ValidatedSha256 ==
    {"", "abc",
     "3E23E8160039594A33894F6564E1B1348BBD7A0088D42C4ACB73EEAED59C009D",
     "ge23e8160039594a33894f6564e1b1348bbd7a0088d42c4acb73eeaed59c009d"}

ValidateCalls ==
    {[fn |-> "_validate_item", raw |-> Raw(key, url, kind, filename, sha256)] :
        key \in ValidatedKeys, url \in ValidatedUrls, kind \in ValidatedKinds,
        filename \in ValidatedFilenames, sha256 \in ValidatedSha256}

InitValidate ==
    /\ DownloaderIdle
    /\ FixerIdle
    /\ call \in ValidateCalls
    /\ result = [returned |-> FALSE]

ValidateItem ==
    /\ call.fn = "_validate_item"
    /\ ~result.returned
    /\ result' = [returned |-> TRUE,
                  item |-> _validate_item(call.raw).item,
                  err |-> _validate_item(call.raw).err]
    /\ UNCHANGED <<call, fixer>>
    /\ DownloaderUnchanged

NextValidate == ValidateItem

SpecValidate == InitValidate /\ [][NextValidate]_vars

\* urlparse(url).hostname: the netloc without the user info before the last
\* "@" and without the port after the first ":", lower-cased ("" for None)
UrlHostname(url) ==
    LET netloc == UrlNetloc(url)
        hostinfo == SubSeq(netloc, RFind(netloc, "@") + 1, Len(netloc))
    IN Lower(SubSeq(hostinfo, 1, FirstOf(hostinfo, 1, {":"}) - 1))

\* path names an entry of the directory dir itself, not of a subdirectory
\* and not the directory or its parent
DirectlyInside(path, dir) ==
    /\ StartsWith(path, dir \o "/")
    /\ LET name == SubSeq(path, Len(dir) + 2, Len(path))
       IN /\ name \notin {"", ".", ".."}
          /\ ~Contains(name, "/")
          /\ ~Contains(name, "\\")

\* the items _validate_item has accepted
Accepted ==
    IF call.fn = "_validate_item" /\ result.returned /\ result.err = ""
    THEN {result.item}
    ELSE {}

\* C34: an accepted item has a non-empty key, an http or https url with a
\* host, a kind of the fixed set, a filename that is a bare basename with an
\* allowed extension and without "/", "\", ":" or "..", and a sha256 that
\* is absent or 64 lower-case hex characters; every path a job writes for
\* it lies directly inside the job's temp directory or the target directory
\* of its kind.
C34_AcceptedItemIsSafe ==
    \A item \in Accepted :
       /\ item.key # ""
       /\ UrlScheme(item.url) \in {"http", "https"}
       /\ UrlHostname(item.url) # ""
       /\ item.kind \in VALID_KINDS
       /\ item.filename = OsBasename(item.filename)
       /\ Lower(SplitExt(item.filename)) \in ALLOWED_EXTENSIONS
       /\ \A bad \in {"/", "\\", ":", ".."} : ~Contains(item.filename, bad)
       /\ item.sha256 = "" \/ (Len(item.sha256) = 64 /\ AllIn(item.sha256, HexDigits))
       /\ \A j \in JobIds :
             /\ DirectlyInside(tmp_path(j, item), _temp_dir(j))
             /\ DirectlyInside(final_tmp(j, item), _temp_dir(j))
             /\ DirectlyInside(target_path(item), _resolve_target_dir(item.kind))

---------------------------------------------------------------------------
(* Saving a workflow into a project: POST /mjr_project/workflow/save.      *)

_WORKFLOW_NAME_MAX == 120

UpperChar(c) ==
    IF c \in CharSet(LowerLetters)
    THEN Char(UpperLetters, CHOOSE i \in 1..Len(LowerLetters) : Char(LowerLetters, i) = c)
    ELSE c

title_token(token) ==
    IF token = "" THEN ""
    ELSE UpperChar(Head(token)) \o Lower(Tail(token))

\* _SPLIT_TOKENS_RE.split(s) without the empty strings
RECURSIVE SplitTokens(_)
SplitTokens(s) ==
    IF s = "" THEN <<>>
    ELSE LET i == FirstOf(s, 1, {" ", "_", "-"})
         IN (IF i > 1 THEN <<SubSeq(s, 1, i - 1)>> ELSE <<>>)
            \o SplitTokens(SubSeq(s, i + 1, Len(s)))

RECURSIVE Join(_, _)
Join(tokens, sep) ==
    IF tokens = <<>> THEN ""
    ELSE IF Len(tokens) = 1 THEN tokens[1]
    ELSE tokens[1] \o sep \o Join(Tail(tokens), sep)

\* str.isdigit and str.isupper
IsDigit(tok) == tok # "" /\ AllIn(tok, DecDigits)

IsUpper(tok) ==
    /\ \E i \in 1..Len(tok) : Char(tok, i) \in CharSet(UpperLetters)
    /\ \A i \in 1..Len(tok) : Char(tok, i) \notin CharSet(LowerLetters)

\* _UNDERSCORES_RE.sub("_", s)
RECURSIVE SqueezeUnderscores(_)
SqueezeUnderscores(s) ==
    IF Len(s) < 2 THEN s
    ELSE IF Char(s, 1) = "_" /\ Char(s, 2) = "_" THEN SqueezeUnderscores(Tail(s))
    ELSE Head(s) \o SqueezeUnderscores(Tail(s))

RECURSIVE RStripUnderscores(_)
RStripUnderscores(s) ==
    IF s # "" /\ Char(s, Len(s)) = "_"
    THEN RStripUnderscores(SubSeq(s, 1, Len(s) - 1)) ELSE s

RECURSIVE LStripUnderscores(_)
LStripUnderscores(s) ==
    IF s # "" /\ Head(s) = "_" THEN LStripUnderscores(Tail(s)) ELSE s

\* the end of safe_workflow_filename: the length limit
LimitedBase(base) ==
    IF Len(base) > _WORKFLOW_NAME_MAX
    THEN RStripUnderscores(SubSeq(base, 1, _WORKFLOW_NAME_MAX))
    ELSE base

\* its middle: each token is kept (digits, upper case) or put in title case
NormalizedTokens(tokens) ==
    [i \in 1..Len(tokens) |->
        IF IsDigit(tokens[i]) \/ IsUpper(tokens[i])
        THEN tokens[i] ELSE title_token(tokens[i])]

JoinedBase(tokens) ==
    IF tokens = <<>> THEN ""
    ELSE LimitedBase(LStripUnderscores(RStripUnderscores(
            SqueezeUnderscores(Join(NormalizedTokens(tokens), "_")))))

\* its start: a trailing ".json", in any case, is dropped
WithoutJson(raw) ==
    IF EndsWith(Lower(raw), ".json") THEN SubSeq(raw, 1, Len(raw) - 5) ELSE raw

safe_workflow_filename(name) ==
    JoinedBase(SplitTokens(WithoutJson(
        Replace(Replace(Replace(Strip(name), "\\", " "), "/", " "), ":", " "))))

\* the day of the request, as yymmdd_now() formats it
yymmdd_now == "260101"

_has_unsafe(v) ==
    \/ StartsWith(v, "/")
    \/ StartsWith(v, "\\")
    \/ Contains(v, ":")
    \/ Contains(v, "..")

\* safe_under_output(rel) for a path the checks let through
safe_under_output(rel) == "output/" \o rel

user_workflows_root == "user/default/workflows"

\* The pattern of the route is compiled from a raw f-string in which the
\* backslashes are doubled: the expression it denotes is the base name, "_",
\* a group made of a backslash and four letters d, a backslash, any one
\* character and "json", letters compared without case.  PatternGroup is the
\* group of the match of name, "" when name does not match.
PatternGroup(file_base, name) ==
    LET n == Len(file_base)
    IN IF /\ Len(name) = n + 12
          /\ Lower(SubSeq(name, 1, n)) = Lower(file_base)
          /\ Char(name, n + 1) = "_"
          /\ Char(name, n + 2) = "\\"
          /\ Lower(SubSeq(name, n + 3, n + 6)) = "dddd"
          /\ Char(name, n + 7) = "\\"
          /\ Lower(SubSeq(name, n + 9, n + 12)) = "json"
       THEN SubSeq(name, n + 2, n + 6)
       ELSE ""

\* the names of the files directly inside directory dir
Entries(fs, dir) ==
    {SubSeq(path, Len(dir) + 2, Len(path)) :
        path \in {p \in DOMAIN fs : StartsWith(p, dir \o "/")
                      /\ ~Contains(SubSeq(p, Len(dir) + 2, Len(p)), "/")}}

\* the loop over the directory: the highest index of a matching name whose
\* group int() accepts, 0 when there is none
MaxIndex(names, file_base) ==
    LET found == {ParseInt(PatternGroup(file_base, name), 0) :
                     name \in {m \in names : PatternGroup(file_base, m) # ""}}
        valid == {idx \in found : idx > 0}
    IN IF valid = {} THEN 0 ELSE CHOOSE idx \in valid : \A other \in valid : other <= idx

\* f"{n:04d}"
Pad4(n) ==
    CASE n < 10 -> "000" \o ToString(n)
      [] n >= 10 /\ n < 100 -> "00" \o ToString(n)
      [] n >= 100 /\ n < 1000 -> "0" \o ToString(n)
      [] OTHER -> ToString(n)

WorkflowFileName(file_base, index) == file_base \o "_" \o Pad4(index) \o ".json"

\* the file name of the route: safe_workflow_filename's, or one made of the
\* date, cut to 115 characters
FileBase(named) ==
    IF named = "" THEN yymmdd_now \o "_Model_Asset"
    ELSE IF Len(named) > 115 THEN RStripUnderscores(SubSeq(named, 1, 115))
    ELSE named

WorkflowsRelDir(project_folder) == "PROJECTS/" \o project_folder \o "/03_WORKFLOWS"

ComfyRel(body, project_folder, file_name) ==
    IF ~body.mirror_to_comfy_workflows THEN ""
    ELSE IF body.use_project_subfolder_in_workflows
    THEN "workflows/" \o project_folder \o "/" \o file_name
    ELSE "workflows/" \o project_folder \o "__" \o file_name

\* the copy into the user's workflows, after the project's file is written
Mirror(saved, body, project_folder, file_base, before, file_name, mirror_path) ==
    [response |-> [ok |-> TRUE, status |-> 200,
                   project_rel_path |-> WorkflowsRelDir(project_folder) \o "/" \o file_name,
                   workflow_rel_dir |-> WorkflowsRelDir(project_folder),
                   comfy_workflow_rel |-> ComfyRel(body, project_folder, file_name),
                   project_folder |-> project_folder,
                   file |-> file_name,
                   mirrored |-> /\ body.mirror_to_comfy_workflows
                                /\ (mirror_path \notin DOMAIN saved \/ body.overwrite),
                   mirror_error |-> IF /\ body.mirror_to_comfy_workflows
                                       /\ mirror_path \in DOMAIN saved
                                       /\ ~body.overwrite
                                    THEN "workflow already exists in workflows"
                                    ELSE "",
                   asset_folder_norm |-> ""],
     files |-> IF /\ body.mirror_to_comfy_workflows
                  /\ (mirror_path \notin DOMAIN saved \/ body.overwrite)
               THEN WriteFile(saved, mirror_path, body.workflow)
               ELSE saved,
     scanned |-> TRUE, before |-> before, file_base |-> file_base]

\* the write of the project's file, refused when it exists
WriteWorkflow(fs, body, project_folder, file_base, before, file_name, project_path) ==
    IF project_path \in DOMAIN fs /\ ~body.overwrite
    THEN [response |-> [ok |-> FALSE, error |-> "workflow file already exists",
                        status |-> 409],
          files |-> fs, scanned |-> TRUE, before |-> before, file_base |-> file_base]
    ELSE Mirror(WriteFile(fs, project_path, body.workflow), body, project_folder,
                file_base, before, file_name,
                "user/default/" \o ComfyRel(body, project_folder, file_name))

NumberWorkflow(fs, body, project_folder, file_base, before, file_name) ==
    WriteWorkflow(fs, body, project_folder, file_base, before, file_name,
                  safe_under_output(WorkflowsRelDir(project_folder) \o "/" \o file_name))

\* the scan of the project's workflow directory for the next index
ScanWorkflows(fs, body, project_folder, file_base, before) ==
    NumberWorkflow(fs, body, project_folder, file_base, before,
                   WorkflowFileName(file_base, MaxIndex(before, file_base) + 1))

Rejected(fs, message, status) ==
    [response |-> [ok |-> FALSE, error |-> message, status |-> status],
     files |-> fs, scanned |-> FALSE, before |-> {}, file_base |-> ""]

SaveIntoFolder(fs, body, project_folder) ==
    IF project_folder = "" \/ _has_unsafe(project_folder)
    THEN Rejected(fs, "project folder not found", 404)
    ELSE ScanWorkflows(fs, body, project_folder,
                       FileBase(safe_workflow_filename(body.workflow_name)),
                       Entries(fs, safe_under_output(WorkflowsRelDir(project_folder))))

SaveIntoProject(fs, body, entry) ==
    IF ~Truthy(entry) THEN Rejected(fs, "project_id not found", 404)
    ELSE SaveIntoFolder(fs, body, StrOrEmpty(JGet(entry, "folder")))

SaveWithIndex(fs, body, index) ==
    IF index.raised # "" THEN Rejected(fs, index.raised, 500)
    ELSE SaveIntoProject(fs, body, JGet(index.value, body.project_id))

\* mjr_project_workflow_save on a parsed body without asset_folder: the
\* response and the files it leaves; before is the listing of the project's
\* workflow directory the handler scanned (scanned = FALSE: it did not get
\* that far)
mjr_project_workflow_save(fs, stored, body) ==
    IF body.project_id = "" \/ _has_unsafe(body.project_id)
    THEN Rejected(fs, "invalid project_id", 400)
    ELSE IF body.workflow_name # "" /\ _has_unsafe(body.workflow_name)
    THEN Rejected(fs, "invalid workflow_name", 400)
    ELSE SaveWithIndex(fs, body, load_index(stored))

WorkflowNames == {"wf", "SD_xl--2.JSON"}

Workflows == {"w1"}

WorkflowsDir == safe_under_output("PROJECTS/P1/03_WORKFLOWS")

\* what the workflow directory of project p1 can hold as the server starts:
\* nothing, numbered workflows, or a file beside them
SavedBefore ==
    {[f \in {} |-> ""],
     (WorkflowsDir \o "/Wf_0001.json" :> "w0"),
     (WorkflowsDir \o "/Wf_0001.json" :> "w0") @@ (WorkflowsDir \o "/Wf_0002.json" :> "w0"),
     (WorkflowsDir \o "/Wf_0001.json" :> "w0") @@ (WorkflowsDir \o "/notes.txt" :> "n")}

InitWorkflow ==
    /\ FixerIdle
    /\ _jobs = [j \in {} |-> 0]
    /\ files \in SavedBefore
    /\ dirs = {_resolve_target_dir("loras")}
    /\ worker = [j \in {} |-> 0]
    /\ issued = 0
    /\ now = 0
    /\ response = [ok |-> TRUE]
    /\ crashed = FALSE
    /\ call = [fn |-> "none"]
    /\ result = [returned |-> FALSE]

\* the index as the projects created before left it
ProjectIndex == JDict({<<"p1", JDict({<<"folder", JStr("P1")>>})>>})

WorkflowSave(project_id, workflow_name, workflow, overwrite, mirror, use_subfolder) ==
    LET r == mjr_project_workflow_save(files, ProjectIndex,
                [project_id |-> project_id, workflow_name |-> workflow_name,
                 workflow |-> workflow, overwrite |-> overwrite,
                 mirror_to_comfy_workflows |-> mirror,
                 use_project_subfolder_in_workflows |-> use_subfolder])
    IN /\ call' = [fn |-> "mjr_project_workflow_save", project_id |-> project_id,
                   workflow_name |-> workflow_name, workflow |-> workflow,
                   overwrite |-> overwrite]
       /\ response' = r.response
       /\ files' = r.files
       /\ result' = [returned |-> TRUE, scanned |-> r.scanned, before |-> r.before,
                     file_base |-> r.file_base]
       /\ UNCHANGED <<_jobs, dirs, worker, issued, now, crashed, fixer>>

NextWorkflow ==
    \E project_id \in ProjectIds, workflow_name \in WorkflowNames,
       workflow \in Workflows, overwrite \in BOOLEAN, mirror \in BOOLEAN,
       use_subfolder \in BOOLEAN :
          WorkflowSave(project_id, workflow_name, workflow, overwrite, mirror,
                       use_subfolder)

SpecWorkflow == InitWorkflow /\ [][NextWorkflow]_vars

\* the number n such that name_0001.json up to name_nnnn.json are all listed
Numbered(names, file_base) ==
    LET held == {n \in 0..9 : \A i \in 1..n : WorkflowFileName(file_base, i) \in names}
    IN CHOOSE n \in held : \A other \in held : other <= n

\* C40: a save without overwrite into a directory that holds B_0001.json up
\* to B_nnnn.json succeeds and writes B_(nnnn+1).json, a file that was not
\* there, so successive saves under one name never meet an existing file.
C40_SaveTakesNextSuffix ==
    (/\ call.fn = "mjr_project_workflow_save"
     /\ result.returned
     /\ result.scanned
     /\ ~call.overwrite)
       => LET file_name == WorkflowFileName(result.file_base,
                               Numbered(result.before, result.file_base) + 1)
          IN /\ response.ok
             /\ response.file = file_name
             /\ file_name \notin result.before
             /\ WorkflowsDir \o "/" \o file_name \in DOMAIN files
             /\ files[WorkflowsDir \o "/" \o file_name] = call.workflow

===========================================================================
